---- MODULE Spec2Model ----
(***************************************************************************)
(* Model of ui/core/proto_utils/logs_parser.tsx: the line classifier       *)
(* (SimLog.parseAll), the temporal grouper (SimLog.groupDuplicateTimestamps)*)
(* and the reconstructors built on the parsed event sequence               *)
(* (AuraUptimeLog.fromLogs, CastLog.fromLogs, DpsLog.fromLogs).             *)
(*                                                                         *)
(* Every operation has its own specification (its own Init and Next); the  *)
(* variables of the other operations keep their idle values there.         *)
(***************************************************************************)
EXTENDS Integers, Sequences, FiniteSets, TLC

VARIABLES
    lines,        \* parseAll: result.logs.split('\n'), one record per line
    promises,     \* parseAll: what lines.map() returned for each line
    values,       \* parseAll: Promise.all's index-addressed value buffer
    settled,      \* parseAll: line positions (1-based) in completion order
    parseState,   \* parseAll: "idle", "pending", "fulfilled" or "rejected"
    result,       \* parseAll: the array the returned promise fulfils with
    logs,         \* reconstructors: the input event sequence
    out,          \* reconstructors: the returned array
    pc,           \* reconstructors: "idle", "loop" or "done"
    logIdx,       \* reconstructors: how many logs the forEach has visited
    unmatchedGainedLogs,  \* AuraUptimeLog.fromLogs: open gains, oldest first
    uptimeLogs,   \* AuraUptimeLog.fromLogs: closed intervals, in closing order
    curDamageLogs,   \* DpsLog.fromLogs: the queue of in-window damage events
    curDamageTotal,  \* DpsLog.fromLogs: the running sum of their amounts
    op,           \* caller: the reconstructor it runs on logs, "" when any
    calls,        \* caller: how many times it has invoked it, 0 when not counted
    prevOut,      \* caller: what the invocation before this one returned
    entityArg,    \* caller: the entity it hands to AuraUptimeLog.fromLogs
    str,          \* Entity.parseAll: its argument, a sequence of pieces of text
    entities,     \* Entity.parseAll: the array it returns
    auraLogs,     \* populateActiveAuras: its second argument
    auraLogsIndex,   \* populateActiveAuras: how many aura logs it has pushed
    curAuras      \* populateActiveAuras: the aura logs pushed and not yet dropped

vars == <<lines, promises, values, settled, parseState, result,
          logs, out, pc, logIdx, unmatchedGainedLogs, uptimeLogs,
          curDamageLogs, curDamageTotal, op, calls, prevOut, entityArg, str, entities,
          auraLogs, auraLogsIndex, curAuras>>

parseVars == <<lines, promises, values, settled, parseState, result>>
reconVars == <<logs, out, pc, logIdx>>
auraVars == <<unmatchedGainedLogs, uptimeLogs>>
dpsVars == <<curDamageLogs, curDamageTotal>>
callVars == <<op, calls, prevOut, entityArg>>
entityVars == <<str, entities>>
populateVars == <<auraLogs, auraLogsIndex, curAuras>>

(***************************************************************************)
(* Bounds of the model.                                                    *)
(***************************************************************************)
MaxLines == 3   \* lines of a parsed log
MaxLogs == 4    \* events handed to the grouper and to DpsLog.fromLogs
MaxAuraLogs == 4   \* events handed to AuraUptimeLog.fromLogs
MaxStackLogs == 4   \* events with stack changes handed to AuraUptimeLog.fromLogs
MaxScopeLogs == 3   \* events of several entities handed to AuraUptimeLog.fromLogs
MaxCastLogs == 4   \* events handed to CastLog.fromLogs
MaxTagLogs == 4   \* events of tagged abilities handed to CastLog.fromLogs
MaxDamagedCastLogs == 6   \* events of casts with damage handed to CastLog.fromLogs
MaxResourceLogs == 4   \* events handed to ResourceChangedLogGroup.fromLogs
MaxThreatLogs == 4   \* events handed to ThreatLogGroup.fromLogs
MaxTwiceLogs == 3   \* events handed to a reconstructor that is run twice
MaxPhrases == 4   \* phrases of a string handed to Entity.parseAll
MaxPieces == 4   \* pieces of a line after its timestamp and source
MaxPopulateLogs == 3   \* events handed to populateActiveAuras
MaxActiveAuras == 2   \* aura logs handed to populateActiveAuras

(***************************************************************************)
(* Shared values.                                                          *)
(***************************************************************************)
\* null (an absent entity, action identifier or event) and an unfilled slot.
Null == [null |-> TRUE]
NoEntity == Null
NoActionId == Null
NoEvent == [empty |-> TRUE]
NoTimestamp == -1

\* Entities a line can name: a player and a target.
Player == [name |-> "Bob", ownerName |-> "", index |-> 0,
           isTarget |-> FALSE, isPet |-> FALSE]
Target == [name |-> "Target 1", ownerName |-> "", index |-> 0,
           isTarget |-> TRUE, isPet |-> FALSE]

(***************************************************************************)
(* SimLog.parseAll.                                                        *)
(*                                                                         *)
(* A line is what the regular expressions of the classifier see in it:     *)
(*   ts        the number of the first "[d.d]" of the line cut at its      *)
(*             " (Threat: f)" suffix, NoTimestamp when there is none;      *)
(*   ents      Entity.parseAll of the remainder after the timestamp;       *)
(*   pat       the kinds whose pattern matches params.raw;                 *)
(*   emptyCap  the kinds of pat whose captured label is empty;             *)
(*   threat    the value of the threat suffix, 0 when absent.              *)
(***************************************************************************)
Kinds == <<"DamageDealt", "ResourceChanged", "AuraEvent", "AuraStacksChange",
           "MajorCooldownUsed", "CastBegan", "CastCompleted", "StatChange">>
KindSet == {Kinds[i] : i \in 1..Len(Kinds)}
Generic == "Generic"

\* match[5] of AuraEventLog.parse, match[1] of AuraStacksChangeLog.parse.
GuardedKinds == {"AuraEvent", "AuraStacksChange"}

Line(ts, ents, pat, emptyCap, threat) ==
    [ts |-> ts, ents |-> ents, pat |-> pat, emptyCap |-> emptyCap, threat |-> threat]

\* X.parse(params) returns a promise (TRUE) or null (FALSE).
ParseAccepts(line, k) ==
    /\ k \in line.pat
    /\ (k \in GuardedKinds => k \notin line.emptyCap)

\* The || chain of parseAll: the first parser, from position i on, that
\* returns a promise; Generic when they all return null.
RECURSIVE LastParser(_, _)
LastParser(line, i) ==
    IF i > Len(Kinds) THEN Generic
    ELSE LET later == LastParser(line, i + 1)
         IN IF later # Generic THEN later
            ELSE IF ParseAccepts(line, Kinds[i]) THEN Kinds[i] ELSE Generic
RECURSIVE FirstParser(_, _)
FirstParser(line, i) ==
    IF i > Len(Kinds) THEN Generic
    ELSE IF ParseAccepts(line, Kinds[i]) THEN Kinds[i]
    ELSE FirstParser(line, i + 1)

\* The params object of one line, as built before the timestamp match.
Params(line, lineIndex) ==
    [raw |-> line, logIndex |-> lineIndex, timestamp |-> 0,
     source |-> NoEntity, target |-> NoEntity, actionId |-> NoActionId,
     threat |-> line.threat]

EntityAt(ents, i) == IF i <= Len(ents) THEN ents[i] ELSE NoEntity

\* What the map callback returns for one line: the params it has filled in,
\* the class of the event, and whether the event waits for ActionId.fill().
ClassifyNoTimestampCheck(line, lineIndex) ==
    LET p == Params(line, lineIndex)
        q == [p EXCEPT !.timestamp = line.ts,
                       !.source = EntityAt(line.ents, 1),
                       !.target = EntityAt(line.ents, 2)]
        k == FirstParser(line, 1)
    IN [kind |-> k, params |-> q, fill |-> k # Generic]
Classify(line, lineIndex) ==
    IF line.ts = NoTimestamp
    THEN [kind |-> Generic, params |-> Params(line, lineIndex), fill |-> FALSE]
    ELSE LET p == Params(line, lineIndex)
             q == [p EXCEPT !.timestamp = line.ts,
                            !.source = EntityAt(line.ents, 1),
                            !.target = EntityAt(line.ents, 2)]
             k == FirstParser(line, 1)
         IN [kind |-> k, params |-> q, fill |-> k # Generic]

\* The identifier ActionId.fromLogString(label).fill(index) resolves to.
ResolvedActionId(line, k) ==
    [label |-> IF k \in line.emptyCap THEN "" ELSE "label", tag |-> 0]

\* The event a fulfilled promise carries: the .then callback stores the
\* resolved identifier in params and constructs the event.
EventOf(promise) ==
    [kind |-> promise.kind] @@
    (IF promise.fill
     THEN [promise.params EXCEPT
              !.actionId = ResolvedActionId(promise.params.raw, promise.kind)]
     ELSE promise.params)

\* Promise.all stores a fulfilled value at the position of its promise.
FirstEmpty(vals) == CHOOSE i \in 1..Len(vals) :
                        vals[i] = NoEvent /\ \A j \in 1..(i - 1) : vals[j] # NoEvent
JoinByCompletion(vals, i, ev) == [vals EXCEPT ![FirstEmpty(vals)] = ev]
JoinAt(vals, i, ev) == [vals EXCEPT ![i] = ev]

\* const lines = result.logs.split('\n'); lines.map(...); Promise.all(...)
ParseAllMap ==
    /\ parseState = "idle"
    /\ promises' = [i \in 1..Len(lines) |-> Classify(lines[i], i - 1)]
    /\ values' = [i \in 1..Len(lines) |-> NoEvent]
    /\ settled' = <<>>
    /\ parseState' = "pending"
    /\ UNCHANGED <<callVars, entityVars, populateVars, lines, result, reconVars, auraVars, dpsVars>>

\* The promise of line i fulfils and Promise.all's reaction to it runs. The
\* lines that wait for ActionId.fill() fulfil in any order; the events that
\* wait for nothing are let in at any point of that order as well.
OnFulfilled(i) ==
    /\ parseState = "pending"
    /\ i \in 1..Len(promises)
    /\ values[i] = NoEvent
    /\ values' = JoinAt(values, i, EventOf(promises[i]))
    /\ settled' = Append(settled, i)
    /\ IF Len(settled') = Len(promises)
       THEN parseState' = "fulfilled" /\ result' = values'
       ELSE UNCHANGED <<parseState, result>>
    /\ UNCHANGED <<callVars, entityVars, populateVars, lines, promises, reconVars, auraVars, dpsVars>>

\* ActionId.fill() of line i rejects: no parser catches it, the promise of
\* the line rejects and Promise.all rejects with it.
OnRejected(i) ==
    /\ parseState = "pending"
    /\ i \in 1..Len(promises)
    /\ values[i] = NoEvent
    /\ promises[i].fill
    /\ parseState' = "rejected"
    /\ settled' = Append(settled, i)
    /\ UNCHANGED <<callVars, entityVars, populateVars, lines, promises, values, result, reconVars, auraVars, dpsVars>>

NextParse ==
    \/ ParseAllMap
    \/ \E i \in 1..MaxLines : OnFulfilled(i)
    \/ \E i \in 1..MaxLines : OnRejected(i)

IdleRecon == logs = <<>> /\ out = <<>> /\ pc = "idle" /\ logIdx = 0
IdleAura == unmatchedGainedLogs = <<>> /\ uptimeLogs = <<>>
IdleDps == curDamageLogs = <<>> /\ curDamageTotal = 0
IdleCall == op = "" /\ calls = 0 /\ prevOut = <<>> /\ entityArg = Player
IdleEntity == str = <<>> /\ entities = <<>>
IdlePopulate == auraLogs = <<>> /\ auraLogsIndex = 0 /\ curAuras = <<>>
IdleParse ==
    /\ lines = <<>> /\ promises = <<>> /\ values = <<>> /\ settled = <<>>
    /\ parseState = "idle" /\ result = <<>>

\* The lines of the logs parseAll is run on.
LineCatalog ==
    { Line(NoTimestamp, <<>>, {}, {}, 0),
      Line(NoTimestamp, <<>>, {"DamageDealt"}, {}, 1),
      Line(1, <<Player, Target>>, {"DamageDealt"}, {}, 1),
      Line(1, <<Player>>, {"AuraEvent"}, {"AuraEvent"}, 0),
      Line(2, <<Player>>, {"CastBegan", "CastCompleted"}, {}, 0),
      Line(2, <<>>, {}, {}, 0) }

\* The sequences over S of length at most n.
SeqsUpTo(S, n) == UNION {[1..k -> S] : k \in 0..n}

InitParse ==
    /\ lines \in (SeqsUpTo(LineCatalog, MaxLines) \ {<<>>})
    /\ promises = <<>> /\ values = <<>> /\ settled = <<>>
    /\ parseState = "idle" /\ result = <<>>
    /\ IdleRecon /\ IdleAura /\ IdleDps /\ IdlePopulate /\ IdleCall /\ IdleEntity

Spec == InitParse /\ [][NextParse]_vars

\* One line, over everything the classifier can see in a line.
AllLines ==
    { Line(ts, ents, pat, emptyCap, threat) :
        ts \in {NoTimestamp, 0, 1},
        ents \in {<<>>, <<Player, Target>>},
        pat \in SUBSET KindSet,
        emptyCap \in SUBSET GuardedKinds,
        threat \in {0} }

InitClassify ==
    /\ lines \in {<<l>> : l \in {m \in AllLines : m.emptyCap \subseteq m.pat}}
    /\ promises = <<>> /\ values = <<>> /\ settled = <<>>
    /\ parseState = "idle" /\ result = <<>>
    /\ IdleRecon /\ IdleAura /\ IdleDps /\ IdlePopulate /\ IdleCall /\ IdleEntity

SpecClassify == InitClassify /\ [][NextParse]_vars

(***************************************************************************)
(* Claims about SimLog.parseAll.                                           *)
(***************************************************************************)
Range(s) == {s[i] : i \in 1..Len(s)}
Min(S) == CHOOSE x \in S : \A y \in S : x <= y

\* The lines whose promise rejected: settled, with no value in the buffer.
FailedLines == {i \in Range(settled) : values[i] = NoEvent}

\* C1: when parseAll returns, it returns one event per line, and the event
\* at position i has logIndex i and the text of line i as raw, whatever the
\* order in which the promises of the lines completed.
C1_OrderedJoin ==
    parseState = "fulfilled" =>
        /\ Len(result) = Len(lines)
        /\ \A i \in 1..Len(lines) :
              result[i].logIndex = i - 1 /\ result[i].raw = lines[i]

\* C1 witness: a log of several different lines whose promises completed
\* out of line order.
C1_Witness ==
    /\ parseState = "fulfilled"
    /\ Len(lines) >= 3
    /\ settled[1] = Len(lines)
    /\ lines[1] # lines[2] /\ lines[2] # lines[3]
    /\ \E i \in 1..Len(lines) : promises[i].fill

\* C2: a line whose identity resolution fails does not abort the batch:
\* parseAll is never rejected, and in its result the event of the failing
\* line has no action identifier.
C2_FailureDegradesLine ==
    /\ parseState # "rejected"
    /\ \A i \in FailedLines :
          parseState = "fulfilled" => result[i].actionId = NoActionId

\* C3 as stated: the event of a line with a timestamp has the first kind,
\* in the order of Kinds, whose pattern matches the line, and is Generic
\* exactly when no pattern matches.
FirstMatching(line) ==
    IF line.pat = {} THEN Generic
    ELSE Kinds[Min({i \in 1..Len(Kinds) : Kinds[i] \in line.pat})]
Accepting(line) ==
    {i \in 1..Len(Kinds) :
        /\ Kinds[i] \in line.pat
        /\ ~(Kinds[i] \in {"AuraEvent", "AuraStacksChange"}
               /\ Kinds[i] \in line.emptyCap)}
C4_NoTimestampIsGeneric ==
    \A i \in 1..Len(promises) :
        lines[i].ts = NoTimestamp =>
            /\ ~promises[i].fill
            /\ i \notin FailedLines
            /\ values[i] # NoEvent =>
                  /\ values[i].kind = Generic
                  /\ values[i].timestamp = 0
                  /\ values[i].source = NoEntity /\ values[i].target = NoEntity
                  /\ values[i].raw = lines[i] /\ values[i].logIndex = i - 1

\* C4 witness: a line without timestamp that a kind pattern matches has
\* produced its event, next to a line with a timestamp.
C4_Witness ==
    /\ parseState = "fulfilled"
    /\ \E i, j \in 1..Len(lines) :
          /\ lines[i].ts = NoTimestamp /\ lines[i].pat # {}
          /\ result[i].kind = Generic
          /\ lines[j].ts # NoTimestamp /\ result[j].kind # Generic


(***************************************************************************)
(* SimLog.groupDuplicateTimestamps and DpsLog.fromLogs.                    *)
(*                                                                         *)
(* Timestamps and amounts are integers; the amounts are multiples of the   *)
(* window, so that curDamageTotal / DPS_WINDOW is exact.                   *)
(***************************************************************************)
DPS_WINDOW == 15

DamageTimes == {0, 5, 15, 20}
DamageAmounts == {15, 150}

DamageDealtLog(logIndex, timestamp, amount) ==
    [kind |-> "DamageDealt", logIndex |-> logIndex, timestamp |-> timestamp,
     amount |-> amount]

\* The test of the forEach callback: the log joins the current group.
SameGroupNonDecreasing(curGroup, log) ==
    Len(curGroup) = 0 \/ log.timestamp >= curGroup[1].timestamp
SameGroup(curGroup, log) ==
    Len(curGroup) = 0 \/ log.timestamp = curGroup[1].timestamp

\* The forEach of groupDuplicateTimestamps from position i on, and the
\* push of the last group after it.
RECURSIVE GroupFrom(_, _, _, _)
GroupFrom(ls, i, grouped, curGroup) ==
    IF i > Len(ls)
    THEN IF Len(curGroup) > 0 THEN Append(grouped, curGroup) ELSE grouped
    ELSE IF SameGroup(curGroup, ls[i])
         THEN GroupFrom(ls, i + 1, grouped, Append(curGroup, ls[i]))
         ELSE GroupFrom(ls, i + 1, Append(grouped, curGroup), <<ls[i]>>)

groupDuplicateTimestamps(ls) == GroupFrom(ls, 1, <<>>, <<>>)

\* SimLog.groupDuplicateTimestamps(logs) is called and returns.
GroupLogs ==
    /\ pc = "idle"
    /\ out' = groupDuplicateTimestamps(logs)
    /\ pc' = "done"
    /\ UNCHANGED <<callVars, entityVars, populateVars, logs, logIdx, parseVars, auraVars, dpsVars>>

NextGroup == GroupLogs

\* Damage events in the order of the log, logIndex increasing: every
\* sequence of at most n of them.
DamageLogSeqs(n) ==
    { [i \in 1..Len(s) |-> DamageDealtLog(i - 1, s[i][1], s[i][2])] :
        s \in SeqsUpTo(DamageTimes \X DamageAmounts, n) }

InitDamage ==
    /\ logs \in DamageLogSeqs(MaxLogs)
    /\ out = <<>> /\ pc = "idle" /\ logIdx = 0
    /\ IdleParse /\ IdleAura /\ IdleDps /\ IdlePopulate /\ IdleCall /\ IdleEntity

SpecGroup == InitDamage /\ [][NextGroup]_vars

(***************************************************************************)
(* Claims about SimLog.groupDuplicateTimestamps.                           *)
(***************************************************************************)
RECURSIVE Flatten(_)
Flatten(ss) == IF ss = <<>> THEN <<>> ELSE Head(ss) \o Flatten(Tail(ss))

\* C5: the groups are the maximal runs of consecutive events with the same
\* timestamp: concatenated in order they give the input back, none is
\* empty, the events of a group share one timestamp, and two adjacent
\* groups have different timestamps.
C5_MaximalRuns ==
    pc = "done" =>
        /\ Flatten(out) = logs
        /\ \A g \in 1..Len(out) :
              /\ Len(out[g]) > 0
              /\ \A i, j \in 1..Len(out[g]) :
                    out[g][i].timestamp = out[g][j].timestamp
        /\ \A g \in 1..(Len(out) - 1) :
              out[g][1].timestamp # out[g + 1][1].timestamp

\* C5 witness: an input whose timestamps go up and come back gives three
\* groups, the middle one of two events.
C5_Witness ==
    /\ pc = "done"
    /\ Len(logs) = 4 /\ Len(out) = 3
    /\ Len(out[2]) = 2
    /\ out[1][1].timestamp = out[3][1].timestamp

(***************************************************************************)
(* DpsLog.fromLogs: one step per group of the map over groupedDamageLogs.  *)
(***************************************************************************)
\* The test of the findIndex callback.
InWindowInclusive(curLog, group) ==
    curLog.timestamp >= group[1].timestamp - DPS_WINDOW
InWindow(curLog, group) ==
    curLog.timestamp > group[1].timestamp - DPS_WINDOW

\* ddLogGroup.forEach: push on the queue, add to the running sum.
RECURSIVE SumAmounts(_)
SumAmounts(ls) == IF ls = <<>> THEN 0 ELSE Head(ls).amount + SumAmounts(Tail(ls))

\* curDamageLogs.findIndex from position i on: every log visited before the
\* first one in the window has its amount subtracted; the result is the
\* index found (0 for -1) and the running sum.
RECURSIVE FindNewStartKeepTotal(_, _, _, _)
FindNewStartKeepTotal(queue, i, total, group) ==
    IF i > Len(queue) THEN [idx |-> 0, total |-> total]
    ELSE IF InWindow(queue[i], group) THEN [idx |-> i, total |-> total]
    ELSE FindNewStartKeepTotal(queue, i + 1, total, group)
RECURSIVE FindNewStart(_, _, _, _)
FindNewStart(queue, i, total, group) ==
    IF i > Len(queue) THEN [idx |-> 0, total |-> total]
    ELSE IF InWindow(queue[i], group) THEN [idx |-> i, total |-> total]
    ELSE FindNewStart(queue, i + 1, total - queue[i].amount, group)

DpsLog(group, dps) ==
    [kind |-> "Dps", logIndex |-> group[1].logIndex,
     timestamp |-> group[1].timestamp, dps |-> dps, damageLogs |-> group]

\* const groupedDamageLogs = ...; let curDamageLogs = []; let curDamageTotal = 0
DpsFromLogs ==
    /\ pc = "idle"
    /\ curDamageLogs' = <<>>
    /\ curDamageTotal' = 0
    /\ out' = <<>>
    /\ pc' = IF groupDuplicateTimestamps(logs) = <<>> THEN "done" ELSE "loop"
    /\ UNCHANGED <<callVars, entityVars, populateVars, logs, logIdx, parseVars, auraVars>>

\* The map callback on the next group.
DpsMapGroup ==
    /\ pc = "loop"
    /\ LET groupedDamageLogs == groupDuplicateTimestamps(logs)
           ddLogGroup == groupedDamageLogs[Len(out) + 1]
           queue == curDamageLogs \o ddLogGroup
           found == FindNewStart(queue, 1, curDamageTotal + SumAmounts(ddLogGroup),
                                 ddLogGroup)
       IN /\ curDamageLogs' = IF found.idx = 0 THEN <<>>
                               ELSE SubSeq(queue, found.idx, Len(queue))
          /\ curDamageTotal' = found.total
          /\ out' = Append(out, DpsLog(ddLogGroup, found.total \div DPS_WINDOW))
          /\ pc' = IF Len(out') = Len(groupedDamageLogs) THEN "done" ELSE "loop"
    /\ UNCHANGED <<callVars, entityVars, populateVars, logs, logIdx, parseVars, auraVars>>

NextDps == DpsFromLogs \/ DpsMapGroup

SpecDps == InitDamage /\ [][NextDps]_vars

(***************************************************************************)
(* Claims about DpsLog.fromLogs.                                           *)
(***************************************************************************)
NonDecreasing(ls) == \A i \in 1..(Len(ls) - 1) : ls[i].timestamp <= ls[i + 1].timestamp

RECURSIVE SumOver(_, _)
SumOver(ls, I) ==
    IF I = {} THEN 0
    ELSE LET i == CHOOSE x \in I : TRUE IN ls[i].amount + SumOver(ls, I \ {i})

\* C10: for damage events in non-decreasing timestamp order there is one
\* DpsLog per timestamp, in input order, holding the events of that
\* timestamp, and dps * 15 of the DpsLog at t is the sum of the amounts of
\* the events up to its group with timestamp > t - 15; one event of 150 at
\* t = 0 gives dps 10.
C10_TrailingWindow ==
    (pc = "done" /\ NonDecreasing(logs)) =>
        /\ Len(out) = Cardinality({logs[i].timestamp : i \in 1..Len(logs)})
        /\ \A g \in 1..(Len(out) - 1) : out[g].timestamp < out[g + 1].timestamp
        /\ \A g \in 1..Len(out) :
              LET t == out[g].timestamp
                  upTo == {i \in 1..Len(logs) : logs[i].timestamp <= t}
                  inWin == {i \in upTo : logs[i].timestamp > t - 15}
              IN /\ out[g].damageLogs = SelectSeq(logs, LAMBDA l : l.timestamp = t)
                 /\ out[g].dps * 15 = SumOver(logs, inWin)
        /\ (Len(logs) = 1 /\ logs[1].amount = 150 /\ logs[1].timestamp = 0) =>
              out[1].dps = 10

\* C10 witness: ordered input whose last group, at t = 20, evicts both an
\* event at t - 15 and an older one, and keeps a younger one.
C10_Witness ==
    /\ pc = "done" /\ NonDecreasing(logs)
    /\ Len(logs) = 4 /\ Len(out) = 4
    /\ out[4].timestamp = 20 /\ logs[2].timestamp = 5
    /\ Len(curDamageLogs) = 2
    /\ out[4].dps * 15 = logs[3].amount + logs[4].amount

\* C11: after each group is processed the running sum is the sum of the
\* amounts of the events left in the queue, whatever the order of the
\* input; when the queue is empty the running sum is 0 and so is the dps
\* just emitted.
C11_TotalIsQueueSum ==
    /\ curDamageTotal = SumAmounts(curDamageLogs)
    /\ curDamageLogs = <<>> =>
          /\ curDamageTotal = 0
          /\ Len(out) > 0 => out[Len(out)].dps = 0
    /\ Len(out) > 0 => out[Len(out)].dps * DPS_WINDOW = SumAmounts(curDamageLogs)

\* C11 witness: input out of order, 0, 20, 0, 20: the second group evicted
\* the first event, and the queue ends with an event older than the window
\* of the last group behind a younger one, still counted in the sum.
C11_Witness ==
    /\ pc = "done" /\ ~NonDecreasing(logs)
    /\ Len(logs) = 4 /\ Len(out) = 4
    /\ Len(curDamageLogs) = 3
    /\ curDamageLogs[2].timestamp <= out[4].timestamp - DPS_WINDOW
    /\ curDamageLogs[1].timestamp = out[4].timestamp

(***************************************************************************)
(* AuraUptimeLog.fromLogs(logs, entity, encounterDuration): one step per   *)
(* log of the forEach, then the closing of the open gains and the sort.    *)
(***************************************************************************)
\* An action identifier: what it identifies and its tag.
ActionId(id, tag) == [id |-> id, tag |-> tag]
ActionIdEquals(a, b) == a.id = b.id /\ a.tag = b.tag
ActionIdEqualsIgnoringTag(a, b) == a.id = b.id

\* An equals that does not compare the names.
EntityEqualsIgnoringName(a, b) ==
    /\ a.isTarget = b.isTarget /\ a.isPet = b.isPet /\ a.index = b.index

\* Entity.equals
EntityEquals(a, b) ==
    /\ a.isTarget = b.isTarget /\ a.isPet = b.isPet
    /\ a.index = b.index /\ a.name = b.name

\* The arguments of fromLogs.
AuraEntity == Player
EncounterDuration == 3

\* The events of the log that fromLogs looks at. raw stands for the text of
\* the line, which differs from line to line.
AuraLog(logIndex, timestamp, shape) ==
    [kind |-> shape.kind, raw |-> <<"line", logIndex>>, logIndex |-> logIndex,
     timestamp |-> timestamp, source |-> shape.source, target |-> NoEntity,
     actionId |-> shape.actionId, spellSchool |-> Null, threat |-> 0,
     isGained |-> shape.event = "gained", isFaded |-> shape.event = "faded",
     isRefreshed |-> shape.event = "refreshed", newStacks |-> shape.newStacks]

AuraShape(kind, event, source, actionId, newStacks) ==
    [kind |-> kind, event |-> event, source |-> source, actionId |-> actionId,
     newStacks |-> newStacks]

isAuraStacksChangeNever(log) == FALSE
isAuraStacksChange(log) == log.kind = "AuraStacksChange"
isAuraEvent(log) == log.kind = "AuraEvent"

\* The findIndex callback of both lookups.
MatchesGained(gainedLog, log) ==
    \/ ActionIdEquals(gainedLog.gained.actionId, log.actionId)
    \/ ActionIdEqualsIgnoringTag(gainedLog.gained.actionId, log.actionId)

\* unmatchedGainedLogs.findIndex(...): the first index that matches, 0 for -1.
FindLastMatchingGainedIdx(unmatched, log) ==
    LET hits == {i \in 1..Len(unmatched) : MatchesGained(unmatched[i], log)}
    IN IF hits = {} THEN 0 ELSE CHOOSE i \in hits : \A j \in hits : j <= i
RECURSIVE FindFrom(_, _, _)
FindFrom(unmatched, log, i) ==
    IF i > Len(unmatched) THEN 0
    ELSE IF MatchesGained(unmatched[i], log) THEN i
    ELSE FindFrom(unmatched, log, i + 1)
FindMatchingGainedIdx(unmatched, log) == FindFrom(unmatched, log, 1)

\* unmatchedGainedLogs.splice(idx, 1); SpliceToEnd is splice(idx), which
\* removes the entries after idx as well.
SpliceToEnd(s, idx) == SubSeq(s, 1, idx - 1)
Splice(s, idx) == SubSeq(s, 1, idx - 1) \o SubSeq(s, idx + 1, Len(s))

\* new AuraUptimeLog(params, fadedAt, stacksChange)
AuraUptimeLog(params, fadedAt, stacksChange) ==
    [kind |-> "AuraUptime", raw |-> params.raw, logIndex |-> params.logIndex,
     timestamp |-> params.timestamp, source |-> params.source,
     target |-> params.target, actionId |-> params.actionId,
     spellSchool |-> params.spellSchool, threat |-> params.threat,
     gainedAt |-> params.timestamp, fadedAt |-> fadedAt,
     stacksChange |-> stacksChange]

\* The uptime log pushed when a fade or refresh closes an open gain.
ClosedBy(open, log) ==
    AuraUptimeLog([raw |-> log.raw, logIndex |-> open.gained.logIndex,
                   timestamp |-> open.gained.timestamp, source |-> log.source,
                   target |-> log.target, actionId |-> open.gained.actionId,
                   spellSchool |-> log.spellSchool, threat |-> open.gained.threat],
                  log.timestamp, open.stacks)

\* The uptime log pushed for a gain that is still open after the forEach.
ClosedAtGain(open, duration) ==
    AuraUptimeLog([raw |-> open.gained.raw, logIndex |-> open.gained.logIndex,
                   timestamp |-> open.gained.timestamp, source |-> open.gained.source,
                   target |-> open.gained.target, actionId |-> open.gained.actionId,
                   spellSchool |-> open.gained.spellSchool,
                   threat |-> open.gained.threat],
                  open.gained.timestamp, open.stacks)
ClosedAtEnd(open, duration) ==
    AuraUptimeLog([raw |-> open.gained.raw, logIndex |-> open.gained.logIndex,
                   timestamp |-> open.gained.timestamp, source |-> open.gained.source,
                   target |-> open.gained.target, actionId |-> open.gained.actionId,
                   spellSchool |-> open.gained.spellSchool,
                   threat |-> open.gained.threat],
                  duration, open.stacks)

Open(log) == [gained |-> log, stacks |-> <<>>]

\* The forEach callback: the open gains and the uptime logs after it has
\* run on log. (AuraVisitNoReopen treats a refresh as a fade.)
AuraVisitNoReopen(unmatched, uptime, log, entity) ==
    LET same == [unmatched |-> unmatched, uptime |-> uptime]
        idx == FindMatchingGainedIdx(unmatched, log)
    IN IF log.source = NoEntity THEN same
       ELSE IF ~EntityEquals(log.source, entity) THEN same
       ELSE IF isAuraStacksChange(log)
            THEN IF log.newStacks <= 0 \/ idx = 0 THEN same
                 ELSE [same EXCEPT !.unmatched[idx].stacks = Append(@, log)]
       ELSE IF ~isAuraEvent(log) THEN same
       ELSE IF log.isGained
            THEN [same EXCEPT !.unmatched = Append(@, Open(log))]
       ELSE IF idx = 0 THEN same
       ELSE [unmatched |-> Splice(unmatched, idx),
             uptime |-> Append(uptime, ClosedBy(unmatched[idx], log))]
\* (AuraVisitAnyStacks does not look at newStacks.)
AuraVisitAnyStacks(unmatched, uptime, log, entity) ==
    LET same == [unmatched |-> unmatched, uptime |-> uptime]
        idx == FindMatchingGainedIdx(unmatched, log)
    IN IF log.source = NoEntity THEN same
       ELSE IF ~EntityEquals(log.source, entity) THEN same
       ELSE IF isAuraStacksChange(log)
            THEN IF idx = 0 THEN same
                 ELSE [same EXCEPT !.unmatched[idx].stacks = Append(@, log)]
       ELSE IF ~isAuraEvent(log) THEN same
       ELSE IF log.isGained
            THEN [same EXCEPT !.unmatched = Append(@, Open(log))]
       ELSE IF idx = 0 THEN same
       ELSE [unmatched |-> IF log.isRefreshed
                           THEN Append(Splice(unmatched, idx), Open(log))
                           ELSE Splice(unmatched, idx),
             uptime |-> Append(uptime, ClosedBy(unmatched[idx], log))]
AuraVisit(unmatched, uptime, log, entity) ==
    LET same == [unmatched |-> unmatched, uptime |-> uptime]
        idx == FindMatchingGainedIdx(unmatched, log)
    IN IF log.source = NoEntity THEN same
       ELSE IF ~EntityEquals(log.source, entity) THEN same
       ELSE IF isAuraStacksChange(log)
            THEN IF log.newStacks <= 0 \/ idx = 0 THEN same
                 ELSE [same EXCEPT !.unmatched[idx].stacks = Append(@, log)]
       ELSE IF ~isAuraEvent(log) THEN same
       ELSE IF log.isGained
            THEN [same EXCEPT !.unmatched = Append(@, Open(log))]
       ELSE IF idx = 0 THEN same
       ELSE [unmatched |-> IF log.isRefreshed
                           THEN Append(Splice(unmatched, idx), Open(log))
                           ELSE Splice(unmatched, idx),
             uptime |-> Append(uptime, ClosedBy(unmatched[idx], log))]

\* uptimeLogs.sort((a, b) => a.gainedAt - b.gainedAt): Array.prototype.sort
\* is stable, so logs of equal gainedAt keep their order.
RECURSIVE InsertByGainedAt(_, _)
InsertByGainedAt(sorted, u) ==
    IF sorted = <<>> THEN <<u>>
    ELSE IF sorted[Len(sorted)].gainedAt <= u.gainedAt THEN Append(sorted, u)
    ELSE Append(InsertByGainedAt(SubSeq(sorted, 1, Len(sorted) - 1), u),
                sorted[Len(sorted)])
RECURSIVE SortByGainedAt(_)
SortByGainedAt(s) ==
    IF s = <<>> THEN <<>>
    ELSE InsertByGainedAt(SortByGainedAt(SubSeq(s, 1, Len(s) - 1)), s[Len(s)])

\* fromLogs is called: the two arrays are created. (AuraFromLogsKeepArrays
\* is a fromLogs whose arrays outlive the call.)
AuraFromLogsKeepArrays ==
    /\ pc = "idle"
    /\ logIdx' = 0
    /\ pc' = "loop"
    /\ UNCHANGED <<callVars, entityVars, populateVars, logs, out, parseVars, dpsVars, auraVars>>
AuraFromLogs ==
    /\ pc = "idle"
    /\ unmatchedGainedLogs' = <<>>
    /\ uptimeLogs' = <<>>
    /\ logIdx' = 0
    /\ pc' = "loop"
    /\ UNCHANGED <<callVars, entityVars, populateVars, logs, out, parseVars, dpsVars>>

\* logs.forEach visits the next log.
AuraForEach ==
    /\ pc = "loop"
    /\ logIdx < Len(logs)
    /\ LET after == AuraVisit(unmatchedGainedLogs, uptimeLogs, logs[logIdx + 1],
                              entityArg)
       IN /\ unmatchedGainedLogs' = after.unmatched
          /\ uptimeLogs' = after.uptime
    /\ logIdx' = logIdx + 1
    /\ UNCHANGED <<callVars, entityVars, populateVars, logs, out, pc, parseVars, dpsVars>>

\* After the forEach: the open gains are closed at encounterDuration, the
\* uptime logs are sorted and returned.
AuraFinish ==
    /\ pc = "loop"
    /\ logIdx = Len(logs)
    /\ uptimeLogs' = SortByGainedAt(
            uptimeLogs \o [i \in 1..Len(unmatchedGainedLogs) |->
                              ClosedAtEnd(unmatchedGainedLogs[i], EncounterDuration)])
    /\ out' = uptimeLogs'
    /\ pc' = "done"
    /\ UNCHANGED <<callVars, entityVars, populateVars, logs, logIdx, unmatchedGainedLogs, parseVars, dpsVars>>

NextAura == AuraFromLogs \/ AuraForEach \/ AuraFinish

\* The logs fromLogs is run on, in the order of the log: every sequence of
\* at most n of the shapes, the first k of them at AuraTimes[1] and the
\* others at AuraTimes[2], so timestamps do not decrease.
AuraTimes == <<1, 2>>
AuraShapes ==
    { AuraShape("AuraEvent", "gained", AuraEntity, a, 0) :
        a \in {ActionId("A", 0), ActionId("A", 1), ActionId("B", 0)} }
    \cup { AuraShape("AuraEvent", "faded", AuraEntity, ActionId("A", 1), 0),
           AuraShape("AuraEvent", "faded", AuraEntity, ActionId("B", 0), 0),
           AuraShape("AuraEvent", "refreshed", AuraEntity, ActionId("A", 0), 0),
           AuraShape("AuraEvent", "faded", Target, ActionId("A", 1), 0) }

AuraLogSeqs(n) ==
    { [i \in 1..Len(s) |->
          AuraLog(i - 1, IF i <= k THEN AuraTimes[1] ELSE AuraTimes[2], s[i])] :
        s \in SeqsUpTo(AuraShapes, n), k \in 0..n }

InitAura ==
    /\ logs \in AuraLogSeqs(MaxAuraLogs)
    /\ out = <<>> /\ pc = "idle" /\ logIdx = 0
    /\ IdleParse /\ IdleAura /\ IdleDps /\ IdlePopulate /\ IdleCall /\ IdleEntity

SpecAura == InitAura /\ [][NextAura]_vars

(***************************************************************************)
(* Claims about AuraUptimeLog.fromLogs.                                    *)
(***************************************************************************)
\* The log the forEach visits in this step.
Visited == logs[logIdx + 1]

\* The open gains that a fade or refresh log matches, exactly or ignoring
\* the tag.
MatchingOpen(log) ==
    {i \in 1..Len(unmatchedGainedLogs) :
        unmatchedGainedLogs[i].gained.actionId.id = log.actionId.id}

\* A fade or refresh of the given entity that matches an open gain.
ClosingStep ==
    /\ pc = "loop" /\ logIdx < Len(logs) /\ logIdx' = logIdx + 1
    /\ Visited.kind = "AuraEvent" /\ ~Visited.isGained
    /\ Visited.source = AuraEntity
    /\ MatchingOpen(Visited) # {}

\* C6: a fade or refresh of the given entity closes the oldest open gain it
\* matches (the one opened by the earliest log), never a younger one: that
\* gain leaves the open list, every other open gain stays, and one uptime
\* log is added, for that gain, with fadedAt the timestamp of the fade or
\* refresh.
C6_ClosesOldestOpen ==
    [][ClosingStep =>
        LET oldest == CHOOSE i \in MatchingOpen(Visited) :
                        \A j \in MatchingOpen(Visited) :
                            unmatchedGainedLogs[i].gained.logIndex
                                <= unmatchedGainedLogs[j].gained.logIndex
            closed == unmatchedGainedLogs[oldest]
            stillOpen == {unmatchedGainedLogs'[i].gained.logIndex :
                            i \in 1..Len(unmatchedGainedLogs')}
        IN /\ Len(uptimeLogs') = Len(uptimeLogs) + 1
           /\ SubSeq(uptimeLogs', 1, Len(uptimeLogs)) = uptimeLogs
           /\ uptimeLogs'[Len(uptimeLogs')].logIndex = closed.gained.logIndex
           /\ uptimeLogs'[Len(uptimeLogs')].gainedAt = closed.gained.timestamp
           /\ uptimeLogs'[Len(uptimeLogs')].fadedAt = Visited.timestamp
           /\ closed.gained.logIndex \notin stillOpen
           /\ \A j \in 1..Len(unmatchedGainedLogs) :
                 j # oldest => unmatchedGainedLogs[j].gained.logIndex \in stillOpen
    ]_vars

\* C6 witness: two instances of one aura were gained with different tags,
\* and two fades carrying the tag of the younger one have closed the older
\* one first, the younger one second.
C6_Witness ==
    /\ pc = "loop" /\ logIdx = 4
    /\ logs[1].isGained /\ logs[2].isGained
    /\ logs[1].actionId = ActionId("A", 0) /\ logs[2].actionId = ActionId("A", 1)
    /\ logs[3].isFaded /\ logs[4].isFaded
    /\ Len(uptimeLogs) = 2
    /\ uptimeLogs[1].logIndex = 0 /\ uptimeLogs[1].fadedAt = logs[3].timestamp
    /\ uptimeLogs[2].logIndex = 1 /\ uptimeLogs[2].fadedAt = logs[4].timestamp

\* C7: every gain still open when the input ends has exactly one uptime log
\* in the result, with fadedAt = encounterDuration and the stack changes
\* collected for it.
C7_OpenClosedAtDuration ==
    pc = "done" =>
        \A i \in 1..Len(unmatchedGainedLogs) :
            LET open == unmatchedGainedLogs[i]
                its == {j \in 1..Len(out) : out[j].logIndex = open.gained.logIndex}
            IN /\ Cardinality(its) = 1
               /\ \A j \in its :
                     /\ out[j].fadedAt = EncounterDuration
                     /\ out[j].gainedAt = open.gained.timestamp
                     /\ out[j].actionId = open.gained.actionId
                     /\ out[j].stacksChange = open.stacks

\* C7 witness: the input ended with two gains open, one of them reopened
\* by a refresh, and one interval closed before.
C7_Witness ==
    /\ pc = "done"
    /\ Len(unmatchedGainedLogs) = 2
    /\ \E i \in 1..2 : unmatchedGainedLogs[i].gained.isRefreshed
    /\ Len(out) = 3
    /\ Cardinality({j \in 1..3 : out[j].fadedAt = EncounterDuration}) = 2

\* C8: the result is sorted by gainedAt, and uptime logs with the same
\* gainedAt are in the input order of their gaining events.
C8_SortedTiesInInputOrder ==
    pc = "done" =>
        \A i \in 1..(Len(out) - 1) :
            \/ out[i].gainedAt < out[i + 1].gainedAt
            \/ /\ out[i].gainedAt = out[i + 1].gainedAt
               /\ out[i].logIndex < out[i + 1].logIndex

\* A fade or refresh of the given entity that matches no open gain.
UnmatchedStep ==
    /\ pc = "loop" /\ logIdx < Len(logs) /\ logIdx' = logIdx + 1
    /\ Visited.kind = "AuraEvent" /\ ~Visited.isGained
    /\ Visited.source = AuraEntity
    /\ MatchingOpen(Visited) = {}

\* C17: a refresh that matches an open gain closes the oldest such gain at
\* the timestamp of the refresh and opens a new entry, last in the list,
\* for the refresh itself: its identifier (which matches that of the closed
\* gain), gainedAt the timestamp of the refresh, no stack changes. A fade
\* or refresh that matches no open gain changes neither the open gains nor
\* the uptime logs.
C17_RefreshReopens ==
    [][/\ (ClosingStep /\ Visited.isRefreshed) =>
            LET n == Len(unmatchedGainedLogs')
                closed == uptimeLogs'[Len(uptimeLogs')]
            IN /\ Len(uptimeLogs') = Len(uptimeLogs) + 1
               /\ closed.fadedAt = Visited.timestamp
               /\ n = Len(unmatchedGainedLogs)
               /\ unmatchedGainedLogs'[n].gained = Visited
               /\ unmatchedGainedLogs'[n].gained.timestamp = Visited.timestamp
               /\ unmatchedGainedLogs'[n].gained.actionId.id = closed.actionId.id
               /\ unmatchedGainedLogs'[n].stacks = <<>>
               /\ \A i \in 1..(n - 1) :
                     \E j \in 1..Len(unmatchedGainedLogs) :
                         unmatchedGainedLogs'[i] = unmatchedGainedLogs[j]
       /\ UnmatchedStep =>
            /\ unmatchedGainedLogs' = unmatchedGainedLogs
            /\ uptimeLogs' = uptimeLogs
    ]_vars

\* C17 witness: a gain with tag 1 was closed by a refresh with tag 0 at a
\* later time and reopened by it, and a fade of another aura, which no
\* open gain matches, has then left everything as it was.
C17_Witness ==
    /\ pc = "loop" /\ logIdx = 3
    /\ logs[1].isGained /\ logs[1].actionId = ActionId("A", 1)
    /\ logs[2].isRefreshed /\ logs[2].timestamp > logs[1].timestamp
    /\ logs[3].isFaded /\ logs[3].actionId = ActionId("B", 0)
    /\ logs[3].source = AuraEntity
    /\ Len(uptimeLogs) = 1
    /\ uptimeLogs[1].gainedAt = logs[1].timestamp
    /\ uptimeLogs[1].fadedAt = logs[2].timestamp
    /\ unmatchedGainedLogs = <<Open(logs[2])>>

\* C19: every uptime log of the result carries the header fields (raw,
\* logIndex, timestamp, source, target, actionId, spellSchool, threat) of
\* the event that opened its interval, a gain or a refresh, whether the
\* interval was closed by a fade or refresh or at the end of the input.
C19_HeaderOfOpeningEvent ==
    pc = "done" =>
        \A j \in 1..Len(out) :
            \E i \in 1..Len(logs) :
                /\ logs[i].kind = "AuraEvent"
                /\ logs[i].isGained \/ logs[i].isRefreshed
                /\ out[j].raw = logs[i].raw
                /\ out[j].logIndex = logs[i].logIndex
                /\ out[j].timestamp = logs[i].timestamp
                /\ out[j].source = logs[i].source
                /\ out[j].target = logs[i].target
                /\ out[j].actionId = logs[i].actionId
                /\ out[j].spellSchool = logs[i].spellSchool
                /\ out[j].threat = logs[i].threat

(***************************************************************************)
(* AuraUptimeLog.fromLogs on logs with stack changes.                      *)
(***************************************************************************)
StackShapes ==
    { AuraShape("AuraEvent", "gained", AuraEntity, ActionId("A", 0), 0),
      AuraShape("AuraEvent", "gained", AuraEntity, ActionId("A", 1), 0),
      AuraShape("AuraStacksChange", "", AuraEntity, ActionId("A", 1), 2),
      AuraShape("AuraStacksChange", "", AuraEntity, ActionId("A", 0), 0),
      AuraShape("AuraStacksChange", "", AuraEntity, ActionId("B", 0), 1),
      AuraShape("AuraStacksChange", "", Target, ActionId("A", 1), 2),
      AuraShape("AuraEvent", "faded", AuraEntity, ActionId("A", 1), 0) }

StackLogSeqs(n) ==
    { [i \in 1..Len(s) |->
          AuraLog(i - 1, IF i <= k THEN AuraTimes[1] ELSE AuraTimes[2], s[i])] :
        s \in SeqsUpTo(StackShapes, n), k \in 0..n }

InitStacks ==
    /\ logs \in StackLogSeqs(MaxStackLogs)
    /\ out = <<>> /\ pc = "idle" /\ logIdx = 0
    /\ IdleParse /\ IdleAura /\ IdleDps /\ IdlePopulate /\ IdleCall /\ IdleEntity

SpecStacks == InitStacks /\ [][NextAura]_vars

\* A stack change of the given entity with newStacks > 0.
StackStep ==
    /\ pc = "loop" /\ logIdx < Len(logs) /\ logIdx' = logIdx + 1
    /\ Visited.kind = "AuraStacksChange"
    /\ Visited.source = AuraEntity
    /\ Visited.newStacks > 0

\* The stack changes held by the open gains and by the uptime logs.
StacksHeld(unmatched, uptime) ==
    UNION {Range(unmatched[i].stacks) : i \in 1..Len(unmatched)}
    \cup UNION {Range(uptime[i].stacksChange) : i \in 1..Len(uptime)}

\* C18: a stack change of the given entity with newStacks > 0 is appended
\* to the stack-change list of the oldest open gain whose identifier it
\* matches, exactly or ignoring the tag, and to no other list; when no open
\* gain matches, nothing changes: no interval is opened and the event is
\* in no list, and so in no uptime log of the result.
C18_StacksToOldestOpen ==
    [][StackStep =>
        /\ uptimeLogs' = uptimeLogs
        /\ IF MatchingOpen(Visited) # {}
           THEN LET oldest == CHOOSE i \in MatchingOpen(Visited) :
                                \A j \in MatchingOpen(Visited) :
                                    unmatchedGainedLogs[i].gained.logIndex
                                        <= unmatchedGainedLogs[j].gained.logIndex
                IN /\ Len(unmatchedGainedLogs') = Len(unmatchedGainedLogs)
                   /\ \A i \in 1..Len(unmatchedGainedLogs) :
                         /\ unmatchedGainedLogs'[i].gained = unmatchedGainedLogs[i].gained
                         /\ unmatchedGainedLogs'[i].stacks =
                               IF i = oldest
                               THEN Append(unmatchedGainedLogs[i].stacks, Visited)
                               ELSE unmatchedGainedLogs[i].stacks
           ELSE /\ unmatchedGainedLogs' = unmatchedGainedLogs
                /\ Visited \notin StacksHeld(unmatchedGainedLogs', uptimeLogs')
    ]_vars

\* C18 witness: with two instances of aura A open, a stack change carrying
\* the tag of the younger one went to the older one, and a stack change of
\* aura B, which is not open, went nowhere.
C18_Witness ==
    /\ pc = "loop" /\ logIdx = 4
    /\ logs[1].isGained /\ logs[1].actionId = ActionId("A", 0)
    /\ logs[2].isGained /\ logs[2].actionId = ActionId("A", 1)
    /\ logs[3].kind = "AuraStacksChange" /\ logs[3].actionId = ActionId("A", 1)
    /\ logs[3].source = AuraEntity
    /\ logs[4].kind = "AuraStacksChange" /\ logs[4].actionId = ActionId("B", 0)
    /\ Len(unmatchedGainedLogs) = 2
    /\ unmatchedGainedLogs[1].stacks = <<logs[3]>>
    /\ unmatchedGainedLogs[2].stacks = <<>>
    /\ uptimeLogs = <<>>

\* The places (uptime log, position in its list) of the result that hold
\* the event.
ListedAt(log) ==
    {<<j, k>> \in (1..Len(out)) \X (1..Len(logs)) :
        k <= Len(out[j].stacksChange) /\ out[j].stacksChange[k] = log}

\* C28: on events in non-decreasing timestamp order and with
\* encounterDuration not less than the last timestamp, every uptime log has
\* gainedAt <= fadedAt; every stack change is in at most one stacksChange
\* list, once; each list is in input order and its events have a timestamp
\* from gainedAt to fadedAt; a stack change with newStacks <= 0 is in no
\* list and closes no interval (no more intervals are closed than fades were
\* visited).
C28_StackListsWellFormed ==
    /\ pc = "done" =>
          /\ \A j \in 1..Len(out) :
                LET u == out[j]
                IN /\ u.gainedAt <= u.fadedAt
                   /\ \A k \in 1..Len(u.stacksChange) :
                         /\ u.stacksChange[k].kind = "AuraStacksChange"
                         /\ u.gainedAt <= u.stacksChange[k].timestamp
                         /\ u.stacksChange[k].timestamp <= u.fadedAt
                         /\ k > 1 => u.stacksChange[k - 1].logIndex
                                        < u.stacksChange[k].logIndex
          /\ \A i \in 1..Len(logs) :
                /\ Cardinality(ListedAt(logs[i])) <= 1
                /\ (logs[i].kind = "AuraStacksChange" /\ logs[i].newStacks <= 0)
                      => ListedAt(logs[i]) = {}
    /\ pc = "loop" =>
          Len(uptimeLogs) <= Cardinality({i \in 1..logIdx :
                                             isAuraEvent(logs[i]) /\ logs[i].isFaded})

\* C28 witness: a gain at 1, a stack change to 2 stacks at 2, a stack
\* change to 0 stacks at 2 and the fade at 2: the one uptime log lists the
\* first stack change only.
C28_Witness ==
    /\ pc = "done"
    /\ Len(logs) = 4
    /\ logs[1].isGained /\ logs[1].timestamp = 1
    /\ logs[2].kind = "AuraStacksChange" /\ logs[2].newStacks = 2
    /\ logs[2].source = AuraEntity /\ logs[2].timestamp = 2
    /\ logs[3].kind = "AuraStacksChange" /\ logs[3].newStacks = 0
    /\ logs[4].isFaded /\ logs[4].source = AuraEntity
    /\ Len(out) = 1
    /\ out[1].gainedAt = 1 /\ out[1].fadedAt = 2
    /\ out[1].stacksChange = <<logs[2]>>

(***************************************************************************)
(* AuraUptimeLog.fromLogs on the events of several entities.               *)
(***************************************************************************)
\* A pet, and entities that differ from it in one field: the name of the
\* owner, the name, the index, the kind.
Pet(name, ownerName, index) ==
    [name |-> name, ownerName |-> ownerName, index |-> index,
     isTarget |-> FALSE, isPet |-> TRUE]
Wolf == Pet("Wolf", "Bob", 0)
ScopeSources ==
    { Wolf, Pet("Wolf", "Ann", 0), Pet("Cat", "Bob", 0), Pet("Wolf", "Bob", 1),
      [Wolf EXCEPT !.isPet = FALSE], NoEntity }

ScopeShapes ==
    { AuraShape("AuraEvent", "gained", source, ActionId("A", 0), 0) :
        source \in ScopeSources }
    \cup { AuraShape("AuraEvent", "faded", source, ActionId("A", 0), 0) :
             source \in {Wolf, Pet("Wolf", "Ann", 0), Pet("Cat", "Bob", 0)} }

ScopeLogSeqs(n) ==
    { [i \in 1..Len(s) |->
          AuraLog(i - 1, IF i <= k THEN AuraTimes[1] ELSE AuraTimes[2], s[i])] :
        s \in SeqsUpTo(ScopeShapes, n), k \in 0..n }

InitScope ==
    /\ logs \in ScopeLogSeqs(MaxScopeLogs)
    /\ entityArg = Wolf
    /\ op = "" /\ calls = 0 /\ prevOut = <<>>
    /\ out = <<>> /\ pc = "idle" /\ logIdx = 0
    /\ IdleParse /\ IdleAura /\ IdleDps /\ IdlePopulate /\ IdleEntity

SpecScope == InitScope /\ [][NextAura]_vars

\* What fromLogs returns for the events ls and the entity e.
RECURSIVE VisitAll(_, _, _, _)
VisitAll(ls, i, st, e) ==
    IF i > Len(ls) THEN st
    ELSE VisitAll(ls, i + 1, AuraVisit(st.unmatched, st.uptime, ls[i], e), e)
UptimeLogsOf(ls, e) ==
    LET st == VisitAll(ls, 1, [unmatched |-> <<>>, uptime |-> <<>>], e)
    IN SortByGainedAt(
           st.uptime \o [i \in 1..Len(st.unmatched) |->
                            ClosedAtEnd(st.unmatched[i], EncounterDuration)])

\* The events of ls whose source is there and agrees with e on the fields F.
SourceAgrees(ls, e, F) ==
    SelectSeq(ls, LAMBDA l : l.source # NoEntity /\ \A f \in F : l.source[f] = e[f])

\* C26 as stated: the events whose source is absent or differs from the
\* entity in a field, ownerName included, have no effect: fromLogs returns
\* what it returns for the events of the entity alone.
C26_ScopedByEveryField ==
    pc = "done" =>
        out = UptimeLogsOf(
                  SourceAgrees(logs, entityArg,
                               {"name", "ownerName", "index", "isTarget", "isPet"}),
                  entityArg)

\* C26 as amended: the events whose source is absent or differs from the
\* entity in name, index, isTarget or isPet have no effect; ownerName is
\* not compared.
C26_ScopedByFourFields ==
    pc = "done" =>
        out = UptimeLogsOf(
                  SourceAgrees(logs, entityArg, {"name", "index", "isTarget", "isPet"}),
                  entityArg)

\* C26 witness: the pet of Bob gains an aura, a pet of the same name and
\* index of another owner fades it, and a pet of another name gains it
\* again: one uptime log, closed by the fade.
C26_Witness ==
    /\ pc = "done"
    /\ Len(logs) = 3
    /\ logs[1].source = Wolf /\ logs[1].isGained
    /\ logs[2].source = Pet("Cat", "Bob", 0) /\ logs[2].isGained
    /\ logs[3].source = Pet("Wolf", "Ann", 0) /\ logs[3].isFaded
    /\ logs[3].timestamp = 2
    /\ Len(out) = 1
    /\ out[1].fadedAt = 2

(***************************************************************************)
(* Counting the intervals of AuraUptimeLog.fromLogs.                       *)
(***************************************************************************)
\* The positions up to n of the aura events of the entity of one sort.
EventsUpTo(n, Sort(_)) ==
    {i \in 1..n : /\ logs[i].source # NoEntity
                  /\ EntityEquals(logs[i].source, entityArg)
                  /\ isAuraEvent(logs[i])
                  /\ Sort(logs[i])}
IsGain(l) == l.isGained
IsFade(l) == ~l.isGained /\ ~l.isRefreshed
IsRefresh(l) == ~l.isGained /\ l.isRefreshed

\* The event at position i finds an open gain when the forEach reaches it.
Matched(i) ==
    LET before == VisitAll(SubSeq(logs, 1, i - 1), 1,
                           [unmatched |-> <<>>, uptime |-> <<>>], entityArg)
    IN FindMatchingGainedIdx(before.unmatched, logs[i]) # 0

\* C27: after any prefix of the input the open entries are as many as the
\* gains minus the matched fades, and each matched fade or refresh has
\* closed one interval; in the output every gain and every matched refresh
\* is the opening event of exactly one uptime log, and there are as many
\* uptime logs as gains and matched refreshes.
C27_Conservation ==
    LET gains(n) == EventsUpTo(n, IsGain)
        fades(n) == {i \in EventsUpTo(n, IsFade) : Matched(i)}
        refreshes(n) == {i \in EventsUpTo(n, IsRefresh) : Matched(i)}
        n == Len(logs)
    IN /\ pc = "loop" =>
             /\ Len(unmatchedGainedLogs)
                   = Cardinality(gains(logIdx)) - Cardinality(fades(logIdx))
             /\ Len(uptimeLogs)
                   = Cardinality(fades(logIdx)) + Cardinality(refreshes(logIdx))
       /\ pc = "done" =>
             /\ Len(out) = Cardinality(gains(n)) + Cardinality(refreshes(n))
             /\ \A i \in gains(n) \cup refreshes(n) :
                   Cardinality({j \in 1..Len(out) :
                                   /\ out[j].logIndex = logs[i].logIndex
                                   /\ out[j].gainedAt = logs[i].timestamp
                                   /\ out[j].actionId = logs[i].actionId}) = 1
             /\ \A j \in 1..Len(out) :
                   \E i \in gains(n) \cup refreshes(n) :
                       out[j].logIndex = logs[i].logIndex

\* C27 witness: a gain, a refresh that closes it and opens again, a fade
\* that closes that, and a fade that finds nothing open: two uptime logs.
C27_Witness ==
    /\ pc = "done"
    /\ Len(logs) = 4
    /\ \A i \in 1..4 : logs[i].source = AuraEntity
    /\ logs[1].isGained /\ logs[2].isRefreshed /\ logs[3].isFaded /\ logs[4].isFaded
    /\ Matched(2) /\ Matched(3) /\ ~Matched(4)
    /\ Len(out) = 2
    /\ out[1].logIndex = 0 /\ out[2].logIndex = 1

(***************************************************************************)
(* CastLog.fromLogs(logs).                                                 *)
(***************************************************************************)
\* The two spell ids toBucketKey singles out.
ArcaneBlastSpellId == 30451
ShadowCascadeSpellId == 127632
\* Another spell.
FireballSpellId == 133

\* An action identifier of a spell, and its two string forms.
SpellActionId(spellId, tag) == [spellId |-> spellId, tag |-> tag]
toString(actionId) == <<actionId.spellId, actionId.tag>>
toStringIgnoringTag(actionId) == <<actionId.spellId>>

\* A key that ignores the tag of every ability.
toBucketKeyIgnoringTag(actionId) == toStringIgnoringTag(actionId)

toBucketKey(actionId) ==
    IF actionId.spellId = ArcaneBlastSpellId \/ actionId.spellId = ShadowCascadeSpellId
    THEN toStringIgnoringTag(actionId)
    ELSE toString(actionId)

\* The events fromLogs looks at; castTime and effectiveTime are the values
\* in the text of a CastBegan line, tick the flag of a DamageDealt line.
CastEvent(logIndex, timestamp, shape) ==
    [kind |-> shape.kind, logIndex |-> logIndex, timestamp |-> timestamp,
     actionId |-> shape.actionId, castTime |-> shape.castTime,
     effectiveTime |-> shape.effectiveTime, tick |-> shape.tick]

CastShape(kind, actionId, castTime, effectiveTime, tick) ==
    [kind |-> kind, actionId |-> actionId, castTime |-> castTime,
     effectiveTime |-> effectiveTime, tick |-> tick]

\* logs.filter(log => log.isX())
FilterKind(ls, kind) == SelectSeq(ls, LAMBDA l : l.kind = kind)

\* bucket(logs, log => toBucketKey(log.actionId))[bucketKey]: the logs of
\* the key, in their order; empty where the record has no such key.
Bucket(ls, bucketKey) == SelectSeq(ls, LAMBDA l : toBucketKey(l.actionId) = bucketKey)

\* Object.keys(castBeganLogsByAbility): the keys in the order of their first
\* log.
RECURSIVE BucketKeys(_)
BucketKeys(ls) ==
    IF ls = <<>> THEN <<>>
    ELSE LET before == BucketKeys(SubSeq(ls, 1, Len(ls) - 1))
             key == toBucketKey(ls[Len(ls)].actionId)
         IN IF \E i \in 1..Len(before) : before[i] = key THEN before
            ELSE Append(before, key)

\* A constructor that keeps the times of the CastBegan event whether or not
\* the cast completed.
CastLogBeganTimes(castBeganLog, castCompletedLog, damageDealtLogs) ==
    LET completed == castCompletedLog # Null
    IN [kind |-> "Cast", logIndex |-> castBeganLog.logIndex,
        timestamp |-> castBeganLog.timestamp,
        actionId |-> IF completed THEN castCompletedLog.actionId
                     ELSE castBeganLog.actionId,
        castTime |-> castBeganLog.castTime,
        effectiveTime |-> castBeganLog.effectiveTime,
        travelTime |-> IF /\ completed
                          /\ Len(damageDealtLogs) = 1
                          /\ castCompletedLog.timestamp < damageDealtLogs[1].timestamp
                          /\ ~damageDealtLogs[1].tick
                       THEN damageDealtLogs[1].timestamp - castCompletedLog.timestamp
                       ELSE 0,
        castBeganLog |-> castBeganLog,
        castCompletedLog |-> castCompletedLog,
        damageDealtLogs |-> damageDealtLogs]

\* A constructor whose travelTime does not look at the tick flag.
CastLogTickBlind(castBeganLog, castCompletedLog, damageDealtLogs) ==
    LET completed == castCompletedLog # Null
    IN [kind |-> "Cast", logIndex |-> castBeganLog.logIndex,
        timestamp |-> castBeganLog.timestamp,
        actionId |-> IF completed THEN castCompletedLog.actionId
                     ELSE castBeganLog.actionId,
        castTime |-> IF completed
                     THEN castCompletedLog.timestamp - castBeganLog.timestamp
                     ELSE castBeganLog.castTime,
        effectiveTime |-> IF completed
                          THEN castCompletedLog.timestamp - castBeganLog.timestamp
                          ELSE castBeganLog.effectiveTime,
        travelTime |-> IF /\ completed
                          /\ Len(damageDealtLogs) = 1
                          /\ castCompletedLog.timestamp < damageDealtLogs[1].timestamp
                       THEN damageDealtLogs[1].timestamp - castCompletedLog.timestamp
                       ELSE 0,
        castBeganLog |-> castBeganLog,
        castCompletedLog |-> castCompletedLog,
        damageDealtLogs |-> damageDealtLogs]

\* new CastLog(castBeganLog, castCompletedLog, damageDealtLogs)
CastLog(castBeganLog, castCompletedLog, damageDealtLogs) ==
    LET completed == castCompletedLog # Null
    IN [kind |-> "Cast", logIndex |-> castBeganLog.logIndex,
        timestamp |-> castBeganLog.timestamp,
        actionId |-> IF completed THEN castCompletedLog.actionId
                     ELSE castBeganLog.actionId,
        castTime |-> IF completed
                     THEN castCompletedLog.timestamp - castBeganLog.timestamp
                     ELSE castBeganLog.castTime,
        effectiveTime |-> IF completed
                          THEN castCompletedLog.timestamp - castBeganLog.timestamp
                          ELSE castBeganLog.effectiveTime,
        travelTime |-> IF /\ completed
                          /\ Len(damageDealtLogs) = 1
                          /\ castCompletedLog.timestamp < damageDealtLogs[1].timestamp
                          /\ ~damageDealtLogs[1].tick
                       THEN damageDealtLogs[1].timestamp - castCompletedLog.timestamp
                       ELSE 0,
        castBeganLog |-> castBeganLog,
        castCompletedLog |-> castCompletedLog,
        damageDealtLogs |-> damageDealtLogs]

\* ccLog: the completed log at the index of the began log, 1-based here.
CompletedAtNext(abilityCastsCompleted, cbIdx) ==
    IF cbIdx + 1 <= Len(abilityCastsCompleted)
    THEN abilityCastsCompleted[cbIdx + 1] ELSE Null
CompletedAt(abilityCastsCompleted, cbIdx) ==
    IF cbIdx <= Len(abilityCastsCompleted) THEN abilityCastsCompleted[cbIdx] ELSE Null

\* The while loop: the index after the damage logs taken from ddIdx on.
RECURSIVE DamageEnd(_, _, _)
DamageEnd(abilityDamageDealt, ddIdx, nextCcLog) ==
    IF /\ ddIdx <= Len(abilityDamageDealt)
       /\ (nextCcLog = Null \/ abilityDamageDealt[ddIdx].timestamp < nextCcLog.timestamp)
    THEN DamageEnd(abilityDamageDealt, ddIdx + 1, nextCcLog)
    ELSE ddIdx

\* A for loop that starts every cast at the damage log the first one
\* started at.
RECURSIVE BucketCastsRestarting(_, _, _, _, _)
BucketCastsRestarting(began, completed, damage, cbIdx, ddIdx) ==
    IF cbIdx > Len(began) THEN <<>>
    ELSE LET ccLog == CompletedAt(completed, cbIdx)
             nextCcLog == IF ccLog # Null THEN CompletedAt(completed, cbIdx + 1)
                          ELSE Null
             ddEnd == DamageEnd(damage, ddIdx, nextCcLog)
             ddLogs == SubSeq(damage, ddIdx, ddEnd - 1)
         IN <<CastLog(began[cbIdx], ccLog, ddLogs)>>
            \o BucketCastsRestarting(began, completed, damage, cbIdx + 1, ddIdx)

\* The for loop over the began logs of one bucket, from cbIdx and ddIdx on.
RECURSIVE BucketCasts(_, _, _, _, _)
BucketCasts(began, completed, damage, cbIdx, ddIdx) ==
    IF cbIdx > Len(began) THEN <<>>
    ELSE LET ccLog == CompletedAt(completed, cbIdx)
             nextCcLog == IF ccLog # Null THEN CompletedAt(completed, cbIdx + 1)
                          ELSE Null
             ddEnd == DamageEnd(damage, ddIdx, nextCcLog)
             ddLogs == SubSeq(damage, ddIdx, ddEnd - 1)
         IN <<CastLog(began[cbIdx], ccLog, ddLogs)>>
            \o BucketCasts(began, completed, damage, cbIdx + 1, ddEnd)

\* castLogs.sort((a, b) => a.timestamp - b.timestamp), a stable sort.
RECURSIVE InsertByTimestamp(_, _)
InsertByTimestamp(sorted, c) ==
    IF sorted = <<>> THEN <<c>>
    ELSE IF sorted[Len(sorted)].timestamp <= c.timestamp THEN Append(sorted, c)
    ELSE Append(InsertByTimestamp(SubSeq(sorted, 1, Len(sorted) - 1), c),
                sorted[Len(sorted)])
RECURSIVE SortByTimestamp(_)
SortByTimestamp(s) ==
    IF s = <<>> THEN <<>>
    ELSE InsertByTimestamp(SortByTimestamp(SubSeq(s, 1, Len(s) - 1)), s[Len(s)])

CastLogsOf(ls) ==
    LET castBeganLogs == FilterKind(ls, "CastBegan")
        castCompletedLogs == FilterKind(ls, "CastCompleted")
        damageDealtLogs == FilterKind(ls, "DamageDealt")
        keys == BucketKeys(castBeganLogs)
        perKey == [k \in 1..Len(keys) |->
                      BucketCasts(Bucket(castBeganLogs, keys[k]),
                                  Bucket(castCompletedLogs, keys[k]),
                                  Bucket(damageDealtLogs, keys[k]), 1, 1)]
    IN SortByTimestamp(Flatten(perKey))

\* CastLog.fromLogs(logs) is called and returns.
CastFromLogs ==
    /\ pc = "idle"
    /\ out' = CastLogsOf(logs)
    /\ pc' = "done"
    /\ UNCHANGED <<callVars, entityVars, populateVars, logs, logIdx, parseVars, auraVars, dpsVars>>

NextCast == CastFromLogs

\* The logs fromLogs is run on, built like those of the aura reconstructor.
CastTimes == <<1, 2>>
CastShapes ==
    { CastShape("CastBegan", SpellActionId(FireballSpellId, 0), 3, 4, FALSE),
      CastShape("CastBegan", SpellActionId(ArcaneBlastSpellId, 1), 3, 4, FALSE),
      CastShape("CastCompleted", SpellActionId(FireballSpellId, 0), 0, 0, FALSE),
      CastShape("CastCompleted", SpellActionId(ArcaneBlastSpellId, 2), 0, 0, FALSE),
      CastShape("DamageDealt", SpellActionId(FireballSpellId, 0), 0, 0, FALSE),
      CastShape("DamageDealt", SpellActionId(FireballSpellId, 0), 0, 0, TRUE),
      CastShape("DamageDealt", SpellActionId(ArcaneBlastSpellId, 1), 0, 0, FALSE) }

CastLogSeqs(n) ==
    { [i \in 1..Len(s) |->
          CastEvent(i - 1, IF i <= k THEN CastTimes[1] ELSE CastTimes[2], s[i])] :
        s \in SeqsUpTo(CastShapes, n), k \in 0..n }

InitCast ==
    /\ logs \in CastLogSeqs(MaxCastLogs)
    /\ out = <<>> /\ pc = "idle" /\ logIdx = 0
    /\ IdleParse /\ IdleAura /\ IdleDps /\ IdlePopulate /\ IdleCall /\ IdleEntity

SpecCast == InitCast /\ [][NextCast]_vars

(***************************************************************************)
(* Claims about CastLog.fromLogs.                                          *)
(***************************************************************************)
\* The logs of one kind in the bucket of log, and the position of log
\* among those of its own kind.
InBucketOf(log, kind) ==
    SelectSeq(logs, LAMBDA l : l.kind = kind
                               /\ toBucketKey(l.actionId) = toBucketKey(log.actionId))
PositionInBucket(log) ==
    Cardinality({i \in 1..Len(logs) :
                    /\ logs[i].kind = log.kind
                    /\ toBucketKey(logs[i].actionId) = toBucketKey(log.actionId)
                    /\ logs[i].logIndex <= log.logIndex})

\* C9: there is exactly one CastLog per CastBegan event; the i-th CastBegan
\* of a bucket has the i-th CastCompleted of the bucket, and a CastBegan
\* with no CastCompleted at its position has castCompletedLog null and
\* travelTime 0.
C9_PositionalPairing ==
    pc = "done" =>
        /\ Len(out) = Len(SelectSeq(logs, LAMBDA l : l.kind = "CastBegan"))
        /\ \A i \in 1..Len(logs) :
              logs[i].kind = "CastBegan" =>
                  Cardinality({j \in 1..Len(out) : out[j].castBeganLog = logs[i]}) = 1
        /\ \A j \in 1..Len(out) :
              LET completed == InBucketOf(out[j].castBeganLog, "CastCompleted")
                  pos == PositionInBucket(out[j].castBeganLog)
              IN IF pos <= Len(completed)
                 THEN out[j].castCompletedLog = completed[pos]
                 ELSE out[j].castCompletedLog = Null /\ out[j].travelTime = 0

\* C9 witness: a bucket with two CastBegan and one CastCompleted, which
\* differs from them in tag, next to a cast of another bucket: the first
\* cast is paired, the second is not.
C9_Witness ==
    /\ pc = "done"
    /\ Len(out) = 3
    /\ \E a, b, c \in 1..3 :
          /\ out[a].castCompletedLog # Null
          /\ out[a].castCompletedLog.actionId # out[a].castBeganLog.actionId
          /\ out[b].castCompletedLog = Null
          /\ out[b].castBeganLog.actionId = out[a].castBeganLog.actionId
          /\ out[b].castBeganLog.logIndex > out[a].castBeganLog.logIndex
          /\ out[c].castBeganLog.actionId.spellId = FireballSpellId

\* The damage events of the bucket of a cast that the casts before it in
\* the bucket did not receive.
RemainingFor(c) ==
    {d \in Range(InBucketOf(c.castBeganLog, "DamageDealt")) :
        \A j \in 1..Len(out) :
            (/\ toBucketKey(out[j].castBeganLog.actionId)
                   = toBucketKey(c.castBeganLog.actionId)
             /\ out[j].castBeganLog.logIndex < c.castBeganLog.logIndex)
                => d \notin Range(out[j].damageDealtLogs)}

\* C20: every damage event attributed to a cast is a damage event of the
\* bucket of the cast with a timestamp from the completion of the cast
\* (included) to the next completion in the bucket (excluded); a cast with
\* no next completion receives all the remaining damage events of the
\* bucket. No damage event earlier than the completion of the cast is
\* attributed to it.
C20_DamageInCompletionWindow ==
    pc = "done" =>
        \A j \in 1..Len(out) :
            LET c == out[j]
                ds == c.damageDealtLogs
                completed == InBucketOf(c.castBeganLog, "CastCompleted")
                pos == PositionInBucket(c.castBeganLog)
            IN /\ \A k \in 1..Len(ds) :
                     /\ ds[k].kind = "DamageDealt"
                     /\ toBucketKey(ds[k].actionId) = toBucketKey(c.castBeganLog.actionId)
                     /\ c.castCompletedLog # Null =>
                           ds[k].timestamp >= c.castCompletedLog.timestamp
                     /\ pos + 1 <= Len(completed) =>
                           ds[k].timestamp < completed[pos + 1].timestamp
               /\ pos + 1 > Len(completed) => Range(ds) = RemainingFor(c)

\* C21: a CastLog with a CastBegan and a CastCompleted event has castTime
\* and effectiveTime equal to the completion timestamp minus the begin
\* timestamp; a CastLog with no CastCompleted event has the castTime and the
\* effectiveTime of its CastBegan event.
C21_CastTimeFromCompletion ==
    pc = "done" =>
        \A j \in 1..Len(out) :
            LET c == out[j]
            IN IF c.castCompletedLog # Null
               THEN /\ c.castTime
                         = c.castCompletedLog.timestamp - c.castBeganLog.timestamp
                    /\ c.effectiveTime = c.castTime
               ELSE /\ c.castTime = c.castBeganLog.castTime
                    /\ c.effectiveTime = c.castBeganLog.effectiveTime

\* C21 witness: a completed cast whose time differs from both values of its
\* CastBegan event, next to a cast that did not complete and keeps two
\* different values.
C21_Witness ==
    /\ pc = "done"
    /\ \E a, b \in 1..Len(out) :
          /\ out[a].castCompletedLog # Null
          /\ out[a].castTime = 1 /\ out[a].effectiveTime = 1
          /\ out[a].castBeganLog.castTime = 3
          /\ out[a].castBeganLog.effectiveTime = 4
          /\ out[b].castCompletedLog = Null
          /\ out[b].castTime = 3 /\ out[b].effectiveTime = 4

\* C22: travelTime is the damage timestamp minus the completion timestamp
\* exactly when the cast has a completion, exactly one attributed damage
\* event, that event is not a tick and is later than the completion; it is
\* 0 in every other case, and never negative.
C22_TravelTime ==
    pc = "done" =>
        \A j \in 1..Len(out) :
            LET c == out[j]
                ds == c.damageDealtLogs
                travels == /\ c.castCompletedLog # Null
                           /\ Len(ds) = 1
                           /\ ~ds[1].tick
                           /\ ds[1].timestamp > c.castCompletedLog.timestamp
            IN /\ travels =>
                     c.travelTime = ds[1].timestamp - c.castCompletedLog.timestamp
               /\ ~travels => c.travelTime = 0
               /\ c.travelTime >= 0

\* C22 witness: a completed cast with one direct hit later than its
\* completion, which travels, next to a cast that did not complete.
C22_Witness ==
    /\ pc = "done"
    /\ \E a, b \in 1..Len(out) :
          /\ out[a].castCompletedLog # Null
          /\ Len(out[a].damageDealtLogs) = 1
          /\ ~out[a].damageDealtLogs[1].tick
          /\ out[a].damageDealtLogs[1].timestamp > out[a].castCompletedLog.timestamp
          /\ out[a].travelTime = 1
          /\ out[b].castCompletedLog = Null
          /\ out[b].travelTime = 0

\* Inputs long enough for two casts of a bucket to complete and to deal
\* damage: the events of Fireball and a damage event of Arcane Blast.
DamagedCastShapes ==
    { CastShape("CastBegan", SpellActionId(FireballSpellId, 0), 3, 4, FALSE),
      CastShape("CastCompleted", SpellActionId(FireballSpellId, 0), 0, 0, FALSE),
      CastShape("DamageDealt", SpellActionId(FireballSpellId, 0), 0, 0, FALSE),
      CastShape("DamageDealt", SpellActionId(ArcaneBlastSpellId, 1), 0, 0, FALSE) }

DamagedCastLogSeqs(n) ==
    { [i \in 1..Len(s) |->
          CastEvent(i - 1, IF i <= k THEN CastTimes[1] ELSE CastTimes[2], s[i])] :
        s \in SeqsUpTo(DamagedCastShapes, n), k \in 0..n }

InitDamagedCasts ==
    /\ logs \in DamagedCastLogSeqs(MaxDamagedCastLogs)
    /\ out = <<>> /\ pc = "idle" /\ logIdx = 0
    /\ IdleParse /\ IdleAura /\ IdleDps /\ IdlePopulate /\ IdleCall /\ IdleEntity

SpecDamagedCasts == InitDamagedCasts /\ [][NextCast]_vars

\* The casts of the result that hold the damage event.
AttributedTo(d) == {j \in 1..Len(out) : d \in Range(out[j].damageDealtLogs)}

\* C29: every DamageDealt event is attributed to at most one CastLog, once;
\* of two attributed damage events of a bucket the later one in the input
\* is in the same cast after the earlier one or in a cast of a later
\* position in the bucket; a damage event whose bucket has no CastBegan is
\* attributed to no CastLog; a CastCompleted event whose position in its
\* bucket is beyond the number of CastBegan events of the bucket is the
\* completion of no CastLog.
C29_DamageAttributedOnce ==
    pc = "done" =>
        /\ \A i \in 1..Len(logs) :
              logs[i].kind = "DamageDealt" =>
                  /\ Cardinality(AttributedTo(logs[i])) <= 1
                  /\ InBucketOf(logs[i], "CastBegan") = <<>>
                        => AttributedTo(logs[i]) = {}
        /\ \A j \in 1..Len(out) :
              \A k \in 2..Len(out[j].damageDealtLogs) :
                  out[j].damageDealtLogs[k - 1].logIndex
                      < out[j].damageDealtLogs[k].logIndex
        /\ \A i1, i2 \in 1..Len(logs) :
              (/\ i1 < i2
               /\ logs[i1].kind = "DamageDealt" /\ logs[i2].kind = "DamageDealt"
               /\ toBucketKey(logs[i1].actionId) = toBucketKey(logs[i2].actionId))
                  => \A j1 \in AttributedTo(logs[i1]), j2 \in AttributedTo(logs[i2]) :
                         PositionInBucket(out[j1].castBeganLog)
                             <= PositionInBucket(out[j2].castBeganLog)
        /\ \A i \in 1..Len(logs) :
              (/\ logs[i].kind = "CastCompleted"
               /\ PositionInBucket(logs[i]) > Len(InBucketOf(logs[i], "CastBegan")))
                  => \A j \in 1..Len(out) : out[j].castCompletedLog # logs[i]

\* C29 witness: two Fireball casts, both completed, the second later than
\* the first, a damage event before the second completion and one at it:
\* each cast has one of them; the damage of Arcane Blast, which was never
\* begun, is with neither.
C29_Witness ==
    /\ pc = "done"
    /\ Len(logs) = 6
    /\ logs[1].kind = "CastBegan" /\ logs[2].kind = "CastBegan"
    /\ logs[3].kind = "CastCompleted" /\ logs[3].timestamp = 1
    /\ logs[4].kind = "DamageDealt" /\ logs[4].timestamp = 1
    /\ logs[4].actionId.spellId = FireballSpellId
    /\ logs[5].kind = "CastCompleted" /\ logs[5].timestamp = 2
    /\ logs[6].kind = "DamageDealt" /\ logs[6].timestamp = 2
    /\ logs[6].actionId.spellId = FireballSpellId
    /\ Len(out) = 2
    /\ out[1].damageDealtLogs = <<logs[4]>>
    /\ out[2].damageDealtLogs = <<logs[6]>>

(***************************************************************************)
(* CastLog.fromLogs on abilities whose events differ in tag.               *)
(***************************************************************************)
\* Events of Fireball, Arcane Blast and Shadow's Cascade under two tags.
TagShapes ==
    { CastShape("CastBegan", SpellActionId(FireballSpellId, 1), 3, 4, FALSE),
      CastShape("CastCompleted", SpellActionId(FireballSpellId, 1), 0, 0, FALSE),
      CastShape("CastCompleted", SpellActionId(FireballSpellId, 2), 0, 0, FALSE),
      CastShape("DamageDealt", SpellActionId(FireballSpellId, 2), 0, 0, FALSE),
      CastShape("CastBegan", SpellActionId(ArcaneBlastSpellId, 1), 3, 4, FALSE),
      CastShape("CastCompleted", SpellActionId(ArcaneBlastSpellId, 2), 0, 0, FALSE),
      CastShape("CastBegan", SpellActionId(ShadowCascadeSpellId, 1), 3, 4, FALSE),
      CastShape("DamageDealt", SpellActionId(ShadowCascadeSpellId, 2), 0, 0, FALSE) }

TagLogSeqs(n) ==
    { [i \in 1..Len(s) |->
          CastEvent(i - 1, IF i <= k THEN CastTimes[1] ELSE CastTimes[2], s[i])] :
        s \in SeqsUpTo(TagShapes, n), k \in 0..n }

InitTags ==
    /\ logs \in TagLogSeqs(MaxTagLogs)
    /\ out = <<>> /\ pc = "idle" /\ logIdx = 0
    /\ IdleParse /\ IdleAura /\ IdleDps /\ IdlePopulate /\ IdleCall /\ IdleEntity

SpecTags == InitTags /\ [][NextCast]_vars

\* Two identifiers name the same ability for the pairing: the same spell
\* for the two designated spells, the same spell and tag for the others.
Designated(actionId) ==
    actionId.spellId \in {ArcaneBlastSpellId, ShadowCascadeSpellId}
SameAbility(a, b) ==
    IF Designated(a) \/ Designated(b) THEN a.spellId = b.spellId ELSE a = b

\* The events of one kind of the ability of log, in input order.
OfAbility(log, kind) ==
    SelectSeq(logs, LAMBDA l : l.kind = kind /\ SameAbility(l.actionId, log.actionId))

\* C23: events of the two designated abilities are bucketed without their
\* tag, so the i-th CastBegan of such an ability is paired with the i-th
\* CastCompleted of the ability whatever their tags; events of every other
\* ability are bucketed with their tag, so the completion and the damage
\* events of a cast have the spell and the tag of its CastBegan event.
C23_BucketByTagOnlyElsewhere ==
    pc = "done" =>
        \A j \in 1..Len(out) :
            LET c == out[j]
                cb == c.castBeganLog
                began == OfAbility(cb, "CastBegan")
                completed == OfAbility(cb, "CastCompleted")
                pos == CHOOSE i \in 1..Len(began) : began[i] = cb
            IN /\ c.castCompletedLog =
                     (IF pos <= Len(completed) THEN completed[pos] ELSE Null)
               /\ \A k \in 1..Len(c.damageDealtLogs) :
                     SameAbility(c.damageDealtLogs[k].actionId, cb.actionId)
               /\ (~Designated(cb.actionId) /\ c.castCompletedLog # Null) =>
                     c.castCompletedLog.actionId = cb.actionId
               /\ ~Designated(cb.actionId) =>
                     \A k \in 1..Len(c.damageDealtLogs) :
                         c.damageDealtLogs[k].actionId = cb.actionId

\* C23 witness: an Arcane Blast begun under tag 1 and completed under tag 2
\* is one completed cast, while a Fireball begun under tag 1 stays without
\* completion although a Fireball completion of tag 2 is in the input.
C23_Witness ==
    /\ pc = "done"
    /\ Len(logs) = 4
    /\ \E i \in 1..4 : /\ logs[i].kind = "CastCompleted"
                       /\ logs[i].actionId = SpellActionId(FireballSpellId, 2)
    /\ \E a, b \in 1..Len(out) :
          /\ out[a].castBeganLog.actionId = SpellActionId(ArcaneBlastSpellId, 1)
          /\ out[a].castCompletedLog # Null
          /\ out[a].castCompletedLog.actionId = SpellActionId(ArcaneBlastSpellId, 2)
          /\ out[b].castBeganLog.actionId = SpellActionId(FireballSpellId, 1)
          /\ out[b].castCompletedLog = Null

(***************************************************************************)
(* ResourceChangedLogGroup.fromLogs(logs).                                 *)
(***************************************************************************)
\* The values of the ResourceType enum other than ResourceTypeNone, in the
\* order of the enum.
ResourceTypeNone == "None"
ResourceTypes == <<"Mana", "Energy">>

\* A ResourceChanged event; total is 0 when the line reports none.
ResourceChangedLog(logIndex, timestamp, shape) ==
    [kind |-> shape.kind, logIndex |-> logIndex, timestamp |-> timestamp,
     resourceType |-> shape.resourceType, valueBefore |-> shape.valueBefore,
     valueAfter |-> shape.valueAfter, total |-> shape.total]

ResourceShape(kind, resourceType, valueBefore, valueAfter, total) ==
    [kind |-> kind, resourceType |-> resourceType, valueBefore |-> valueBefore,
     valueAfter |-> valueAfter, total |-> total]

\* maxResource: the largest total of the logs, starting from 0.
maxResourceOfLast(ls) == ls[Len(ls)].total
RECURSIVE maxResource(_)
maxResource(ls) ==
    IF ls = <<>> THEN 0
    ELSE LET max == maxResource(SubSeq(ls, 1, Len(ls) - 1))
         IN IF ls[Len(ls)].total > max THEN ls[Len(ls)].total ELSE max

\* new ResourceChangedLogGroup({...}, resourceType, logGroup[0].valueBefore,
\* logGroup[logGroup.length - 1].valueAfter, maxResource(logGroup), logGroup)
ResourceChangedLogGroup(resourceType, logGroup) ==
    [kind |-> "ResourceChangedGroup", logIndex |-> logGroup[1].logIndex,
     timestamp |-> logGroup[1].timestamp, resourceType |-> resourceType,
     valueBefore |-> logGroup[1].valueBefore,
     valueAfter |-> logGroup[Len(logGroup)].valueAfter,
     maxValue |-> maxResource(logGroup), logs |-> logGroup]

\* The body of resourceTypes.forEach: the groups of one resource type.
\* GroupThenFilter groups the logs of all types and keeps, of each group,
\* the logs of the type.
GroupThenFilter(allResourceChangedLogs, resourceType) ==
    LET groupedLogs == groupDuplicateTimestamps(allResourceChangedLogs)
        typed == [g \in 1..Len(groupedLogs) |->
                     SelectSeq(groupedLogs[g], LAMBDA l : l.resourceType = resourceType)]
        kept == SelectSeq(typed, LAMBDA g : g # <<>>)
    IN [g \in 1..Len(kept) |-> ResourceChangedLogGroup(resourceType, kept[g])]
GroupsOfType(allResourceChangedLogs, resourceType) ==
    LET resourceChangedLogs ==
            SelectSeq(allResourceChangedLogs, LAMBDA l : l.resourceType = resourceType)
        groupedLogs == groupDuplicateTimestamps(resourceChangedLogs)
    IN [g \in 1..Len(groupedLogs) |->
           ResourceChangedLogGroup(resourceType, groupedLogs[g])]

\* A fromLogs that sorts the array it was given by timestamp, in place,
\* before it filters and groups.
ResourceFromLogsSortingLogs ==
    /\ pc = "idle"
    /\ logs' = SortByTimestamp(logs)
    /\ LET allResourceChangedLogs == FilterKind(logs', "ResourceChanged")
       IN out' = [t \in Range(ResourceTypes) |->
                     GroupsOfType(allResourceChangedLogs, t)]
    /\ pc' = "done"
    /\ UNCHANGED <<callVars, entityVars, populateVars, logIdx, parseVars, auraVars, dpsVars>>

\* ResourceChangedLogGroup.fromLogs(logs) is called and returns its record,
\* one entry per resource type.
ResourceFromLogs ==
    /\ pc = "idle"
    /\ LET allResourceChangedLogs == FilterKind(logs, "ResourceChanged")
       IN out' = [t \in Range(ResourceTypes) |->
                     GroupsOfType(allResourceChangedLogs, t)]
    /\ pc' = "done"
    /\ UNCHANGED <<callVars, entityVars, populateVars, logs, logIdx, parseVars, auraVars, dpsVars>>

NextResource == ResourceFromLogs

\* The logs fromLogs is run on: every sequence of at most n of the shapes,
\* at ResourceTimes[1] up to position a, at ResourceTimes[2] up to position
\* b and at ResourceTimes[1] again after it.
ResourceTimes == <<1, 2>>
ResourceShapes ==
    { ResourceShape("ResourceChanged", "Mana", 10, 15, 0),
      ResourceShape("ResourceChanged", "Mana", 15, 20, 100),
      ResourceShape("ResourceChanged", "Mana", 20, 5, 50),
      ResourceShape("ResourceChanged", "Energy", 50, 40, 60),
      ResourceShape("ResourceChanged", ResourceTypeNone, 1, 2, 3),
      ResourceShape("DamageDealt", ResourceTypeNone, 0, 0, 0) }

ResourceLogSeqs(n) ==
    { [i \in 1..Len(s) |->
          ResourceChangedLog(i - 1,
                             IF i <= a \/ i > b THEN ResourceTimes[1]
                             ELSE ResourceTimes[2], s[i])] :
        s \in SeqsUpTo(ResourceShapes, n), a \in 0..n, b \in 0..n }

InitResource ==
    /\ logs \in ResourceLogSeqs(MaxResourceLogs)
    /\ out = <<>> /\ pc = "idle" /\ logIdx = 0
    /\ IdleParse /\ IdleAura /\ IdleDps /\ IdlePopulate /\ IdleCall /\ IdleEntity

SpecResource == InitResource /\ [][NextResource]_vars

(***************************************************************************)
(* Claims about ResourceChangedLogGroup.fromLogs.                          *)
(***************************************************************************)
Max(S) == CHOOSE x \in S : \A y \in S : x >= y

\* C12: for each resource type the groups are the maximal runs of equal
\* timestamp among the ResourceChanged events of that type, events of other
\* types and kinds left out first; a group has the valueBefore of its first
\* event, the valueAfter of its last event, and as maxValue the largest
\* total of its events, 0 when none reports a total.
C12_GroupsPerType ==
    pc = "done" =>
        \A t \in Range(ResourceTypes) :
            LET typed == SelectSeq(logs, LAMBDA l : l.kind = "ResourceChanged"
                                                     /\ l.resourceType = t)
                groups == out[t]
            IN /\ Flatten([g \in 1..Len(groups) |-> groups[g].logs]) = typed
               /\ \A g \in 1..(Len(groups) - 1) :
                     groups[g].logs[1].timestamp # groups[g + 1].logs[1].timestamp
               /\ \A g \in 1..Len(groups) :
                     LET ls == groups[g].logs
                     IN /\ Len(ls) > 0
                        /\ \A i \in 1..Len(ls) : ls[i].timestamp = ls[1].timestamp
                        /\ groups[g].resourceType = t
                        /\ groups[g].valueBefore = ls[1].valueBefore
                        /\ groups[g].valueAfter = ls[Len(ls)].valueAfter
                        /\ groups[g].maxValue =
                              Max({0} \cup {ls[i].total : i \in 1..Len(ls)})

\* C12 witness: two Mana events at one timestamp with an Energy event of a
\* later timestamp between them are one Mana group; its valueAfter is that
\* of the second event and its maxValue the total of the first.
C12_Witness ==
    /\ pc = "done"
    /\ Len(logs) = 3
    /\ logs[1].resourceType = "Mana" /\ logs[3].resourceType = "Mana"
    /\ logs[2].resourceType = "Energy"
    /\ logs[2].timestamp # logs[1].timestamp
    /\ Len(out["Mana"]) = 1 /\ Len(out["Energy"]) = 1
    /\ out["Mana"][1].valueAfter = logs[3].valueAfter
    /\ logs[1].valueAfter # logs[3].valueAfter
    /\ out["Mana"][1].maxValue = logs[1].total
    /\ logs[1].total > logs[3].total

(***************************************************************************)
(* ThreatLogGroup.fromLogs(logs).                                          *)
(***************************************************************************)
\* An event as fromLogs sees it: its place, its time and its threat.
ThreatEvent(logIndex, timestamp, threat) ==
    [kind |-> Generic, logIndex |-> logIndex, timestamp |-> timestamp,
     threat |-> threat]

\* sum(logGroup.map(log => log.threat))
RECURSIVE SumThreat(_)
SumThreat(ls) == IF ls = <<>> THEN 0 ELSE Head(ls).threat + SumThreat(Tail(ls))

\* new ThreatLogGroup({...}, curThreat, curThreat + newThreat, logGroup)
ThreatLogGroup(logGroup, newThreat, threatBefore, threatAfter) ==
    [kind |-> "ThreatGroup", logIndex |-> logGroup[1].logIndex,
     timestamp |-> logGroup[1].timestamp, threat |-> newThreat,
     threatBefore |-> threatBefore, threatAfter |-> threatAfter,
     logs |-> logGroup]

\* groupedLogs.map from group i on, curThreat being the running total.
RECURSIVE ThreatMapFromZero(_, _, _)
ThreatMapFromZero(groupedLogs, i, curThreat) ==
    IF i > Len(groupedLogs) THEN <<>>
    ELSE LET newThreat == SumThreat(groupedLogs[i])
         IN <<ThreatLogGroup(groupedLogs[i], newThreat, curThreat,
                             curThreat + newThreat)>>
            \o ThreatMapFromZero(groupedLogs, i + 1, curThreat)
RECURSIVE ThreatMapFrom(_, _, _)
ThreatMapFrom(groupedLogs, i, curThreat) ==
    IF i > Len(groupedLogs) THEN <<>>
    ELSE LET newThreat == SumThreat(groupedLogs[i])
         IN <<ThreatLogGroup(groupedLogs[i], newThreat, curThreat,
                             curThreat + newThreat)>>
            \o ThreatMapFrom(groupedLogs, i + 1, curThreat + newThreat)

\* ThreatLogGroup.fromLogs(logs) is called and returns.
ThreatFromLogs ==
    /\ pc = "idle"
    /\ LET groupedLogs ==
               groupDuplicateTimestamps(SelectSeq(logs, LAMBDA log : log.threat # 0))
       IN out' = ThreatMapFrom(groupedLogs, 1, 0)
    /\ pc' = "done"
    /\ UNCHANGED <<callVars, entityVars, populateVars, logs, logIdx, parseVars, auraVars, dpsVars>>

NextThreat == ThreatFromLogs

\* The logs fromLogs is run on: every sequence of at most n events, with
\* any of the timestamps and any of the threat values, 0 among them.
ThreatTimes == {1, 2}
ThreatValues == {0, 2, 5, -2}

ThreatLogSeqs(n) ==
    { [i \in 1..Len(s) |-> ThreatEvent(i - 1, s[i][1], s[i][2])] :
        s \in SeqsUpTo(ThreatTimes \X ThreatValues, n) }

InitThreat ==
    /\ logs \in ThreatLogSeqs(MaxThreatLogs)
    /\ out = <<>> /\ pc = "idle" /\ logIdx = 0
    /\ IdleParse /\ IdleAura /\ IdleDps /\ IdlePopulate /\ IdleCall /\ IdleEntity

SpecThreat == InitThreat /\ [][NextThreat]_vars

(***************************************************************************)
(* Claims about ThreatLogGroup.fromLogs.                                   *)
(***************************************************************************)
RECURSIVE SumThreatOver(_, _)
SumThreatOver(ls, I) ==
    IF I = {} THEN 0
    ELSE LET i == CHOOSE x \in I : TRUE IN ls[i].threat + SumThreatOver(ls, I \ {i})

\* C13: the groups are the timestamp groups of the events with nonzero
\* threat, so an event with threat 0 is in no group; the first group has
\* threatBefore 0, every group has threatAfter = threatBefore + the sum of
\* the threat of its events, every later group starts from the threatAfter
\* of the group before it, and the last threatAfter is the sum of the
\* threat of all the input events.
C13_RunningThreat ==
    pc = "done" =>
        /\ Flatten([g \in 1..Len(out) |-> out[g].logs]) =
              SelectSeq(logs, LAMBDA l : l.threat # 0)
        /\ \A g \in 1..Len(out) :
              /\ Len(out[g].logs) > 0
              /\ \A i \in 1..Len(out[g].logs) :
                    /\ out[g].logs[i].timestamp = out[g].timestamp
                    /\ out[g].logs[i].threat # 0
              /\ out[g].threatAfter =
                    out[g].threatBefore
                      + SumThreatOver(out[g].logs, 1..Len(out[g].logs))
        /\ \A g \in 1..(Len(out) - 1) :
              /\ out[g].timestamp # out[g + 1].timestamp
              /\ out[g + 1].threatBefore = out[g].threatAfter
        /\ Len(out) > 0 =>
              /\ out[1].threatBefore = 0
              /\ out[Len(out)].threatAfter = SumThreatOver(logs, 1..Len(logs))

\* C13 witness: four events, one of them with threat 0, give two groups,
\* the first of two events; the second group starts from a total that is
\* not 0 and lowers it.
C13_Witness ==
    /\ pc = "done"
    /\ Len(logs) = 4 /\ Len(out) = 2
    /\ \E i \in 1..4 : logs[i].threat = 0
    /\ Len(out[1].logs) = 2
    /\ out[2].threatBefore > 0
    /\ out[2].threatAfter < out[2].threatBefore

(***************************************************************************)
(* A caller that runs one of the reconstructors on a sequence of events    *)
(* and then runs it again on the same sequence. The working variables of   *)
(* the first invocation are left as it ended; each fromLogs creates its    *)
(* own when it is called.                                                  *)
(***************************************************************************)
Reconstructors == {"AuraUptimeLog", "CastLog", "DpsLog",
                   "ResourceChangedLogGroup", "ThreatLogGroup"}

\* The caller keeps what the first invocation returned and calls again.
CallAgain ==
    /\ pc = "done"
    /\ calls = 1
    /\ prevOut' = out
    /\ calls' = calls + 1
    /\ pc' = "idle"
    /\ UNCHANGED <<op, entityArg, logs, out, logIdx, parseVars, auraVars, dpsVars, entityVars,
                   populateVars>>

NextTwice ==
    \/ op = "AuraUptimeLog" /\ NextAura
    \/ op = "CastLog" /\ NextCast
    \/ op = "DpsLog" /\ NextDps
    \/ op = "ResourceChangedLogGroup" /\ NextResource
    \/ op = "ThreatLogGroup" /\ NextThreat
    \/ CallAgain

InitTwice ==
    /\ op \in Reconstructors
    /\ logs \in CASE op = "AuraUptimeLog" -> AuraLogSeqs(MaxTwiceLogs)
                  [] op = "CastLog" -> CastLogSeqs(MaxTwiceLogs)
                  [] op = "DpsLog" -> DamageLogSeqs(MaxTwiceLogs)
                  [] op = "ResourceChangedLogGroup" -> ResourceLogSeqs(MaxTwiceLogs)
                  [] op = "ThreatLogGroup" -> ThreatLogSeqs(MaxTwiceLogs)
    /\ out = <<>> /\ pc = "idle" /\ logIdx = 0
    /\ calls = 1 /\ prevOut = <<>> /\ entityArg = AuraEntity
    /\ IdleParse /\ IdleAura /\ IdleDps /\ IdlePopulate /\ IdleEntity

SpecTwice == InitTwice /\ [][NextTwice]_vars

Words == {"Target", "Bob", "Wolf", "Ann", "hits"}
Digits == {"1", "2", "3"}
Parens == {"(#1)", "(#2)"}

\* parseInt of one digit and of the digits of "(#N)".
DigitValue(d) == CASE d = "1" -> 1 [] d = "2" -> 2 [] d = "3" -> 3
ParenValue(p) == CASE p = "(#1)" -> 1 [] p = "(#2)" -> 2

\* parseInt of a run of digits.
RECURSIVE ParseInt(_)
ParseInt(ds) ==
    IF ds = <<>> THEN 0
    ELSE 10 * ParseInt(SubSeq(ds, 1, Len(ds) - 1)) + DigitValue(ds[Len(ds)])

\* The character classes [0-9], [a-zA-Z0-9] and [a-zA-Z0-9\s]; the pet name
\* class [a-zA-Z0-9\s:,] is the last one on these pieces.
IsDigit(a) == a \in Digits
IsAlnum(a) == a \in Words \cup Digits
IsNameChar(a) == IsAlnum(a) \/ a = " "

\* The piece of s at position i is a.
IsPiece(s, i, a) == i \in 1..Len(s) /\ s[i] = a

\* A greedy class+ from position i: the position after the run.
RECURSIVE DigitRunEnd(_, _)
DigitRunEnd(s, i) == IF i <= Len(s) /\ IsDigit(s[i]) THEN DigitRunEnd(s, i + 1) ELSE i
RECURSIVE AlnumRunEnd(_, _)
AlnumRunEnd(s, i) == IF i <= Len(s) /\ IsAlnum(s[i]) THEN AlnumRunEnd(s, i + 1) ELSE i
RECURSIVE NameRunEnd(_, _)
NameRunEnd(s, i) == IF i <= Len(s) /\ IsNameChar(s[i]) THEN NameRunEnd(s, i + 1) ELSE i

\* new Entity(name, ownerName, index, isTarget, isPet); the two names are
\* the pieces of their text.
Entity(name, ownerName, index, isTarget, isPet) ==
    [name |-> name, ownerName |-> ownerName, index |-> index,
     isTarget |-> isTarget, isPet |-> isPet]

NoMatch == [matched |-> FALSE]
Match(end, entity) == [matched |-> TRUE, end |-> end, entity |-> entity]

\* The three alternatives of parseRegex tried at position i, and the entity
\* the map callback builds from the groups of the match.
MatchTarget(s, i) ==
    IF /\ IsPiece(s, i, "[") /\ IsPiece(s, i + 1, "Target") /\ IsPiece(s, i + 2, " ")
       /\ i + 3 <= Len(s) /\ IsDigit(s[i + 3])
    THEN LET e == DigitRunEnd(s, i + 3)
         IN Match(e, Entity(SubSeq(s, i + 1, e - 1), <<>>,
                            ParseInt(SubSeq(s, i + 3, e - 1)) - 1, TRUE, FALSE))
    ELSE NoMatch
MatchPet(s, i) ==
    LET j == AlnumRunEnd(s, i)
    IN IF /\ j > i
          /\ IsPiece(s, j, " ") /\ j + 1 <= Len(s) /\ s[j + 1] \in Parens
          /\ IsPiece(s, j + 2, " ") /\ IsPiece(s, j + 3, "-") /\ IsPiece(s, j + 4, " ")
          /\ j + 5 <= Len(s) /\ IsNameChar(s[j + 5])
       THEN LET e == NameRunEnd(s, j + 5)
            IN Match(e, Entity(SubSeq(s, j + 5, e - 1), SubSeq(s, i, j - 1),
                               ParenValue(s[j + 1]) - 1, FALSE, TRUE))
       ELSE NoMatch
MatchPlayer(s, i) ==
    LET e == NameRunEnd(s, i)
    IN IF /\ e - 1 > i /\ s[e - 1] = " "
          /\ e <= Len(s) /\ s[e] \in Parens
          /\ IsPiece(s, e + 1, "]")
       THEN Match(e + 2, Entity(SubSeq(s, i, e - 2), <<>>,
                                ParenValue(s[e]) - 1, FALSE, FALSE))
       ELSE NoMatch

\* str.matchAll(Entity.parseRegex) from position i on, mapped to entities:
\* the leftmost match, the alternatives in their order, then on from the
\* end of the match.
RECURSIVE MatchAllFrom(_, _)
MatchAllFrom(s, i) ==
    IF i > Len(s) THEN <<>>
    ELSE LET t == MatchTarget(s, i)
             p == MatchPet(s, i)
             n == MatchPlayer(s, i)
             m == IF t.matched THEN t ELSE IF p.matched THEN p ELSE n
         IN IF m.matched THEN <<m.entity>> \o MatchAllFrom(s, m.end)
            ELSE MatchAllFrom(s, i + 1)

\* The last branch of the map callback is taken for a match of str from
\* position i on: none of match[1], match[3] and match[7], the texts of the
\* three alternatives without their brackets, is a non-empty string.
RECURSIVE InvalidMatchFrom(_, _)
InvalidMatchFrom(s, i) ==
    IF i > Len(s) THEN FALSE
    ELSE LET t == MatchTarget(s, i)
             p == MatchPet(s, i)
             n == MatchPlayer(s, i)
             m == IF t.matched THEN t ELSE IF p.matched THEN p ELSE n
             group == IF t.matched THEN SubSeq(s, i + 1, t.end - 1)
                      ELSE IF p.matched THEN SubSeq(s, i, p.end - 1)
                      ELSE SubSeq(s, i, n.end - 2)
         IN IF m.matched THEN group = <<>> \/ InvalidMatchFrom(s, m.end)
            ELSE InvalidMatchFrom(s, i + 1)

\* Entity.parseAll(str) is called and returns, or throws 'Invalid Entity
\* match' out of the map callback.
EntityParseAll ==
    /\ pc = "idle"
    /\ IF InvalidMatchFrom(str, 1)
       THEN pc' = "thrown" /\ entities' = entities
       ELSE pc' = "done" /\ entities' = MatchAllFrom(str, 1)
    /\ UNCHANGED <<str, callVars, logs, out, logIdx, parseVars, auraVars, dpsVars,
                   populateVars>>

NextEntity == EntityParseAll

\* The strings parseAll is run on: up to n phrases one after the other, a
\* phrase being a bracket, the text of a label with or without its
\* brackets, or other text.
TargetText == <<"Target", " ", "3">>
PetText == <<"Bob", " ", "(#2)", " ", "-", " ", "Wolf">>
PlayerText == <<"Ann", " ", "(#1)">>
OtherText == <<" ", "hits", " ">>
Bracketed(text) == <<"[">> \o text \o <<"]">>
Phrases ==
    { <<"[">>, <<"]">>, TargetText, PetText, PlayerText, OtherText,
      Bracketed(TargetText), Bracketed(PetText), Bracketed(PlayerText) }

EntityStrings(n) == {Flatten(ps) : ps \in SeqsUpTo(Phrases, n)}

InitEntity ==
    /\ str \in EntityStrings(MaxPhrases)
    /\ entities = <<>>
    /\ IdleParse /\ IdleRecon /\ IdleAura /\ IdleDps /\ IdlePopulate /\ IdleCall

SpecEntity == InitEntity /\ [][NextEntity]_vars

(***************************************************************************)
(* Claims about Entity.parseAll.                                           *)
(***************************************************************************)
AllIn(s, from, to, Class(_)) == \A k \in from..to : Class(s[k])

\* The position of the first bracket, of either kind, after position i;
\* Len(s) + 1 when there is none.
RECURSIVE NextBracket(_, _)
NextBracket(s, i) ==
    IF i + 1 > Len(s) THEN Len(s) + 1
    ELSE IF s[i + 1] \in {"[", "]"} THEN i + 1
    ELSE NextBracket(s, i + 1)

\* The entity a bracketed label stands for, its text being body: a target
\* for "Target N", a pet for "Owner (#N) - Pet", a player for "Name (#N)";
\* Null when body has none of these forms.
LabelEntity(body) ==
    LET n == Len(body)
        dash == {k \in 2..(n - 5) :
                    /\ body[k] = " " /\ body[k + 1] \in Parens /\ body[k + 2] = " "
                    /\ body[k + 3] = "-" /\ body[k + 4] = " "
                    /\ AllIn(body, 1, k - 1, IsAlnum)
                    /\ AllIn(body, k + 5, n, IsNameChar)}
    IN IF /\ n >= 3 /\ body[1] = "Target" /\ body[2] = " "
          /\ AllIn(body, 3, n, IsDigit)
       THEN Entity(body, <<>>, ParseInt(SubSeq(body, 3, n)) - 1, TRUE, FALSE)
       ELSE IF dash # {}
       THEN LET k == CHOOSE x \in dash : TRUE
            IN Entity(SubSeq(body, k + 5, n), SubSeq(body, 1, k - 1),
                      ParenValue(body[k + 1]) - 1, FALSE, TRUE)
       ELSE IF /\ n >= 3 /\ body[n] \in Parens /\ body[n - 1] = " "
               /\ AllIn(body, 1, n - 2, IsNameChar)
       THEN Entity(SubSeq(body, 1, n - 2), <<>>, ParenValue(body[n]) - 1,
                   FALSE, FALSE)
       ELSE Null

\* The entities of the bracketed labels of s from position i on, in order.
RECURSIVE LabelEntities(_, _)
LabelEntities(s, i) ==
    IF i > Len(s) THEN <<>>
    ELSE LET j == NextBracket(s, i)
             e == IF s[i] = "[" /\ j <= Len(s) /\ s[j] = "]"
                  THEN LabelEntity(SubSeq(s, i + 1, j - 1)) ELSE Null
         IN IF e # Null THEN <<e>> \o LabelEntities(s, j + 1)
            ELSE LabelEntities(s, i + 1)

\* The string has a pair of brackets whose content, some text, is none of
\* the three forms of a label.
MalformedBracket(s) ==
    \E i \in 1..Len(s) :
        LET j == NextBracket(s, i)
        IN /\ s[i] = "[" /\ j <= Len(s) /\ s[j] = "]"
           /\ j > i + 1
           /\ LabelEntity(SubSeq(s, i + 1, j - 1)) = Null

\* C25: parseAll called on a string with bracket content that is none of
\* the three forms of a label throws; it does not return.
C25_MalformedBracketThrows ==
    (pc # "idle" /\ MalformedBracket(str)) => pc = "thrown"

TimestampPiece == "[1.00]"
SourcePiece == " [Bob (#1)]"
LabelPiece == " Fireball"
HitPiece == " Hit"
TargetDamagePiece == " [Target 1] for 10.00 damage"
CastCompletedPiece == " Completed cast"
AuraGainedPiece == " Aura gained:"
ThreatPiece == " (Threat: 5.00)"

\* The first position of a piece of S in text, 0 for none.
RECURSIVE IndexFrom(_, _, _)
IndexFrom(text, S, i) ==
    IF i > Len(text) THEN 0
    ELSE IF text[i] \in S THEN i ELSE IndexFrom(text, S, i + 1)
FirstIndex(text, S) == IndexFrom(text, S, 1)

\* threatMatch: parseFloat of its group, and line.substring(0, its index).
ThreatOf(text) == IF FirstIndex(text, {ThreatPiece}) > 0 THEN 5 ELSE 0
Truncated(text) ==
    LET t == FirstIndex(text, {ThreatPiece})
    IN IF t > 0 THEN SubSeq(text, 1, t - 1) ELSE text

\* line.match of the timestamp pattern: parseFloat(match[1]), and match[2].
TimestampOf(line) ==
    IF FirstIndex(line, {TimestampPiece}) > 0 THEN 1 ELSE NoTimestamp
RemainderOf(line) ==
    SubSeq(line, FirstIndex(line, {TimestampPiece}) + 1, Len(line))

\* Entity.parseAll(remainder): the entities of the labels in the pieces.
RECURSIVE EntitiesOf(_)
EntitiesOf(remainder) ==
    IF remainder = <<>> THEN <<>>
    ELSE (CASE Head(remainder) = SourcePiece -> <<Player>>
            [] Head(remainder) = TargetDamagePiece -> <<Target>>
            [] OTHER -> <<>>) \o EntitiesOf(Tail(remainder))

\* DamageDealtLog.parse: "] ", a lazy label, " ", a result word. The match
\* is the leftmost one: from the first piece that ends with "]" and has a
\* result word at least two pieces later, to the first such result word.
DamageStart(raw) ==
    LET starts == {i \in 1..Len(raw) :
                      /\ raw[i] \in {TimestampPiece, SourcePiece}
                      /\ \E j \in (i + 2)..Len(raw) : raw[j] = HitPiece}
    IN IF starts = {} THEN 0 ELSE Min(starts)
DamageLabel(raw) ==
    LET i == DamageStart(raw)
        j == Min({k \in (i + 2)..Len(raw) : raw[k] = HitPiece})
    IN SubSeq(raw, i + 1, j - 1)

\* AuraEventLog.parse and CastCompletedLog.parse: the keyword, a space and
\* a greedy label up to the end of the text.
TrailingLabel(raw, keyword) ==
    SubSeq(raw, FirstIndex(raw, {keyword}) + 1, Len(raw))
MatchesTrailing(raw, keyword) ==
    FirstIndex(raw, {keyword}) \in 1..(Len(raw) - 1)

\* The kinds whose pattern matches raw, and the label X.parse hands to
\* ActionId.fromLogString.
PatternsOf(raw) ==
    (IF DamageStart(raw) > 0 THEN {"DamageDealt"} ELSE {})
    \cup (IF MatchesTrailing(raw, AuraGainedPiece) THEN {"AuraEvent"} ELSE {})
    \cup (IF MatchesTrailing(raw, CastCompletedPiece) THEN {"CastCompleted"} ELSE {})
LabelOf(raw, kind) ==
    CASE kind = "DamageDealt" -> DamageLabel(raw)
      [] kind = "AuraEvent" -> TrailingLabel(raw, AuraGainedPiece)
      [] kind = "CastCompleted" -> TrailingLabel(raw, CastCompletedPiece)
      [] OTHER -> <<>>

\* What parseAll sees in the line of this text: the timestamp and the
\* entities in the line cut at the threat suffix, the patterns in
\* params.raw. The text is kept in the line.
LineOfText(text) ==
    LET line == Truncated(text)
    IN [ts |-> TimestampOf(line),
        ents |-> IF TimestampOf(line) = NoTimestamp THEN <<>>
                 ELSE EntitiesOf(RemainderOf(line)),
        pat |-> PatternsOf(text), emptyCap |-> {}, threat |-> ThreatOf(text),
        text |-> text]

\* The label handed to the resolver for line i.
LabelHanded(promise) == LabelOf(promise.params.raw.text, promise.kind)

\* The texts parseAll is run on: nothing, a timestamp, or a timestamp and
\* a source label, followed by up to n other pieces.
TextPrefixes == {<<>>, <<TimestampPiece>>, <<TimestampPiece, SourcePiece>>}
TailPieces == {LabelPiece, HitPiece, TargetDamagePiece, CastCompletedPiece,
               AuraGainedPiece, ThreatPiece}
LineTexts(n) == {p \o t : p \in TextPrefixes, t \in SeqsUpTo(TailPieces, n)}

InitText ==
    /\ lines \in {<<LineOfText(t)>> : t \in LineTexts(MaxPieces)}
    /\ promises = <<>> /\ values = <<>> /\ settled = <<>>
    /\ parseState = "idle" /\ result = <<>>
    /\ IdleRecon /\ IdleAura /\ IdleDps /\ IdlePopulate /\ IdleCall /\ IdleEntity

SpecText == InitText /\ [][NextParse]_vars

(***************************************************************************)
(* Claims about the threat suffix.                                         *)
(***************************************************************************)
\* C16: for a line with a threat suffix the event has the threat of the
\* suffix, and everything else is matched on the line cut at the suffix:
\* the timestamp, the entities and the kind are those of the cut line, and
\* the label handed to the resolver holds nothing of the suffix.
C16_SuffixUnseen ==
    \A i \in 1..Len(promises) :
        LET raw == lines[i].text
            cut == Classify(LineOfText(Truncated(raw)), i - 1)
        IN ThreatPiece \in Range(raw) =>
              /\ promises[i].params.threat = 5
              /\ promises[i].params.timestamp = cut.params.timestamp
              /\ promises[i].params.source = cut.params.source
              /\ promises[i].params.target = cut.params.target
              /\ promises[i].kind = cut.kind
              /\ ThreatPiece \notin Range(LabelHanded(promises[i]))


(***************************************************************************)
(* AuraUptimeLog.populateActiveAuras(logs, auraLogs): one step for the     *)
(* call, one for each log of the forEach, one for the return.              *)
(***************************************************************************)
\* A base event as its constructor leaves it: no aura is active.
SimLog(logIndex, timestamp) ==
    [kind |-> "Generic", raw |-> <<"line", logIndex>>, logIndex |-> logIndex,
     timestamp |-> timestamp, source |-> NoEntity, target |-> NoEntity,
     actionId |-> NoActionId, spellSchool |-> Null, threat |-> 0,
     activeAuras |-> <<>>]

\* stringComparator on the names of the model, in alphabetical order.
NameOrder == <<"A", "B">>
stringComparator(a, b) ==
    (CHOOSE i \in 1..Len(NameOrder) : NameOrder[i] = a)
        - (CHOOSE i \in 1..Len(NameOrder) : NameOrder[i] = b)

\* activeAuras.sort((a, b) => stringComparator(a.actionId.name, b.actionId.name)),
\* a stable sort.
RECURSIVE InsertByName(_, _)
InsertByName(sorted, u) ==
    IF sorted = <<>> THEN <<u>>
    ELSE IF stringComparator(sorted[Len(sorted)].actionId.id, u.actionId.id) <= 0
         THEN Append(sorted, u)
    ELSE Append(InsertByName(SubSeq(sorted, 1, Len(sorted) - 1), u),
                sorted[Len(sorted)])
RECURSIVE SortByName(_)
SortByName(s) ==
    IF s = <<>> THEN <<>>
    ELSE InsertByName(SortByName(SubSeq(s, 1, Len(s) - 1)), s[Len(s)])

\* The while loop: the index after the aura logs pushed from index on.
RECURSIVE PushEnd(_, _, _)
PushEnd(as, index, log) ==
    IF index < Len(as) /\ as[index + 1].gainedAt <= log.timestamp
    THEN PushEnd(as, index + 1, log)
    ELSE index

\* The filter: the aura is kept. (StillActiveAtFade keeps it at the
\* timestamp of its fade as well.)
StillActiveAtFade(curAura, log) == curAura.fadedAt >= log.timestamp
StillActive(curAura, log) == curAura.fadedAt > log.timestamp

\* populateActiveAuras is called.
PopulateActiveAuras ==
    /\ pc = "idle"
    /\ curAuras' = <<>>
    /\ auraLogsIndex' = 0
    /\ logIdx' = 0
    /\ pc' = "loop"
    /\ UNCHANGED <<callVars, entityVars, auraLogs, logs, out, parseVars, auraVars,
                   dpsVars>>

\* logs.forEach visits the next log and assigns its activeAuras.
PopulateForEach ==
    /\ pc = "loop"
    /\ logIdx < Len(logs)
    /\ LET log == logs[logIdx + 1]
           end == PushEnd(auraLogs, auraLogsIndex, log)
           pushed == curAuras \o SubSeq(auraLogs, auraLogsIndex + 1, end)
           kept == SelectSeq(pushed, LAMBDA curAura : StillActive(curAura, log))
       IN /\ auraLogsIndex' = end
          /\ curAuras' = kept
          /\ logs' = [logs EXCEPT ![logIdx + 1].activeAuras = SortByName(kept)]
    /\ logIdx' = logIdx + 1
    /\ UNCHANGED <<callVars, entityVars, auraLogs, out, pc, parseVars, auraVars,
                   dpsVars>>

\* populateActiveAuras returns; it returns no value.
PopulateReturn ==
    /\ pc = "loop"
    /\ logIdx = Len(logs)
    /\ pc' = "done"
    /\ UNCHANGED <<callVars, entityVars, populateVars, logs, out, logIdx, parseVars,
                   auraVars, dpsVars>>

NextPopulate == PopulateActiveAuras \/ PopulateForEach \/ PopulateReturn

\* The arguments: events in non-decreasing timestamp order, and aura logs
\* sorted by gainedAt as AuraUptimeLog.fromLogs returns them, each with
\* gainedAt <= fadedAt.
PopulateTimes == {1, 2, 3}
PopulateLogSeqs(n) ==
    { [i \in 1..Len(ts) |-> SimLog(i - 1, ts[i])] :
        ts \in { t \in SeqsUpTo(PopulateTimes, n) :
                    \A i \in 1..(Len(t) - 1) : t[i] <= t[i + 1] } }

UptimeShapes ==
    { [id |-> id, gainedAt |-> g, fadedAt |-> f] :
        id \in {"A", "B"}, g \in PopulateTimes, f \in PopulateTimes }

UptimeLogSeqs(n) ==
    { [i \in 1..Len(s) |->
          AuraUptimeLog([raw |-> <<"line", i - 1>>, logIndex |-> i - 1,
                         timestamp |-> s[i].gainedAt, source |-> AuraEntity,
                         target |-> NoEntity, actionId |-> ActionId(s[i].id, 0),
                         spellSchool |-> Null, threat |-> 0],
                        s[i].fadedAt, <<>>)] :
        s \in { u \in SeqsUpTo({x \in UptimeShapes : x.gainedAt <= x.fadedAt}, n) :
                   \A i \in 1..(Len(u) - 1) : u[i].gainedAt <= u[i + 1].gainedAt } }

InitPopulate ==
    /\ logs \in PopulateLogSeqs(MaxPopulateLogs)
    /\ auraLogs \in UptimeLogSeqs(MaxActiveAuras)
    /\ auraLogsIndex = 0 /\ curAuras = <<>>
    /\ out = <<>> /\ pc = "idle" /\ logIdx = 0
    /\ IdleParse /\ IdleAura /\ IdleDps /\ IdleCall /\ IdleEntity

SpecPopulate == InitPopulate /\ [][NextPopulate]_vars

\* C30: after populateActiveAuras, on events in non-decreasing timestamp
\* order and aura logs sorted by gainedAt, the activeAuras of each event are
\* exactly the aura logs with gainedAt <= timestamp of the event < fadedAt,
\* each once; an aura log that is absent from the activeAuras of an event
\* after having been in those of an earlier event is in those of no later
\* event.
C30_ActiveAtTimestamp ==
    pc = "done" =>
        /\ \A i \in 1..Len(logs) :
              /\ Range(logs[i].activeAuras)
                    = {a \in Range(auraLogs) :
                          a.gainedAt <= logs[i].timestamp
                          /\ logs[i].timestamp < a.fadedAt}
              /\ Len(logs[i].activeAuras) = Cardinality(Range(logs[i].activeAuras))
        /\ \A a \in Range(auraLogs) :
              \A i, j, k \in 1..Len(logs) :
                  (i < j /\ j < k /\ a \in Range(logs[i].activeAuras)
                      /\ a \notin Range(logs[j].activeAuras))
                          => a \notin Range(logs[k].activeAuras)

\* C30 witness: three events at 1, 2 and 3, an aura gained at 1 that fades
\* at 2 and an aura gained at 2 that fades at 3: the first is active at 1
\* only, the second at 2 only.
C30_Witness ==
    /\ pc = "done"
    /\ Len(logs) = 3 /\ Len(auraLogs) = 2
    /\ logs[1].timestamp = 1 /\ logs[2].timestamp = 2 /\ logs[3].timestamp = 3
    /\ auraLogs[1].gainedAt = 1 /\ auraLogs[1].fadedAt = 2
    /\ auraLogs[2].gainedAt = 2 /\ auraLogs[2].fadedAt = 3
    /\ logs[1].activeAuras = <<auraLogs[1]>>
    /\ logs[2].activeAuras = <<auraLogs[2]>>
    /\ logs[3].activeAuras = <<>>

(***************************************************************************)
(* A caller that hands a sequence of base events to one of the operations  *)
(* that take it: a reconstructor or populateActiveAuras.                   *)
(***************************************************************************)
NextOps ==
    \/ op = "AuraUptimeLog" /\ NextAura
    \/ op = "CastLog" /\ NextCast
    \/ op = "DpsLog" /\ NextDps
    \/ op = "ResourceChangedLogGroup" /\ NextResource
    \/ op = "ThreatLogGroup" /\ NextThreat
    \/ op = "populateActiveAuras" /\ NextPopulate

InitOps ==
    /\ op \in Reconstructors \cup {"populateActiveAuras"}
    /\ logs \in CASE op = "AuraUptimeLog" -> AuraLogSeqs(MaxTwiceLogs)
                  [] op = "CastLog" -> CastLogSeqs(MaxTwiceLogs)
                  [] op = "DpsLog" -> DamageLogSeqs(MaxTwiceLogs)
                  [] op = "ResourceChangedLogGroup" -> ResourceLogSeqs(MaxTwiceLogs)
                  [] op = "ThreatLogGroup" -> ThreatLogSeqs(MaxTwiceLogs)
                  [] op = "populateActiveAuras" -> PopulateLogSeqs(MaxPopulateLogs)
    /\ auraLogs \in IF op = "populateActiveAuras" THEN UptimeLogSeqs(MaxActiveAuras)
                    ELSE {<<>>}
    /\ auraLogsIndex = 0 /\ curAuras = <<>>
    /\ out = <<>> /\ pc = "idle" /\ logIdx = 0
    /\ calls = 0 /\ prevOut = <<>> /\ entityArg = AuraEntity
    /\ IdleParse /\ IdleAura /\ IdleDps /\ IdleEntity

SpecOps == InitOps /\ [][NextOps]_vars

\* C24 as stated: no step of a reconstructor or of populateActiveAuras
\* changes the sequence of base events, its order or a field of a base
\* event.
C24_BaseEventsUnchanged == [][logs' = logs]_vars

\* An event without its activeAuras.
WithoutActiveAuras(log) == [f \in DOMAIN log \ {"activeAuras"} |-> log[f]]

\* C24 as amended: no step of a reconstructor changes the sequence of base
\* events, its order or a field of a base event; a step of
\* populateActiveAuras changes nothing but the activeAuras of the event it
\* visits, and no step changes the aura logs handed to it.
C24_OnlyActiveAurasWritten ==
    [][/\ op \in Reconstructors => logs' = logs
       /\ Len(logs') = Len(logs)
       /\ \A i \in 1..Len(logs) :
             /\ WithoutActiveAuras(logs'[i]) = WithoutActiveAuras(logs[i])
             /\ logs'[i] # logs[i] => (pc = "loop" /\ i = logIdx + 1)
       /\ auraLogs' = auraLogs]_vars

\* C24 witness: populateActiveAuras has returned and has left an aura log
\* in the activeAuras of the second of two events, which was constructed
\* with none.
C24_Witness ==
    /\ op = "populateActiveAuras"
    /\ pc = "done"
    /\ Len(logs) >= 2
    /\ logs[1].activeAuras = <<>>
    /\ Len(logs[2].activeAuras) = 1
    /\ logs[2].activeAuras[1] \in Range(auraLogs)

====
